---------------------------- MODULE Spec2Model ----------------------------
(* Code generation layer of the compiler: the orchestrators of               *)
(* compiler-core/src/codegen.rs (Erlang, ErlangApp, FSharpApp, JavaScript)   *)
(* and the F# generator of compiler-core/src/fsharp.rs.                      *)
(*                                                                           *)
(* Text is a sequence of tokens (strings); a module name is a sequence of    *)
(* one-character tokens, so that replace("/", ..), split("/") and the byte   *)
(* order used by sorted() act on it as they do on the Rust strings.          *)
EXTENDS Integers, Sequences, FiniteSets, TLC

VARIABLES
    target,      \* which orchestrator's render is called
    modules,     \* the &[Module] argument
    cfg,         \* PackageConfig and ErlangAppCodegenConfiguration
    typescript,  \* JavaScript.typescript
    fs,          \* the file system behind the FileSystemWriter: path -> text
    pc,          \* per render call: where the call is
    result,      \* per render call: the Result it returned
    log,         \* per render call: the writes it issued, in order
    obs,         \* per render call: what writer.exists answered in write_prelude
    before,      \* per render call: the calls that had returned when it began
    ctype,       \* the CustomType handed to Generator::custom_type
    doc,         \* the Document a Generator method returned
    generator,   \* the Generator: its module and its external_files
    rendered,    \* what render / render_module returned, call by call
    node         \* the typed tree node handed to a Generator method

orchVars == <<target, modules, cfg, typescript, fs, pc, result, log, obs, before>>
typeVars == <<ctype, doc>>
genVars == <<generator, rendered, node>>
vars == <<target, modules, cfg, typescript, fs, pc, result, log, obs, before, ctype, doc,
          generator, rendered, node>>

-----------------------------------------------------------------------------
(* Bounds of the model *)

MaxModules == 2
MaxDeps == 2
MaxArgs == 2

-----------------------------------------------------------------------------
(* Strings *)

\* Byte values of the characters that occur in names (UTF-8, as Ord for str).
CharCode(c) ==
    CASE c = "." -> 46
      [] c = "/" -> 47
      [] c = "0" -> 48
      [] c = "@" -> 64
      [] c = "A" -> 65
      [] c = "B" -> 66
      [] c = "T" -> 84
      [] c = "\\" -> 92
      [] c = "a" -> 97
      [] c = "b" -> 98
      [] c = "c" -> 99
      [] c = "s" -> 115
      [] c = "x" -> 120
      [] c = "y" -> 121
      [] c = "z" -> 122

\* Ord::cmp on strings: lexicographic on bytes, a proper prefix is smaller.
RECURSIVE StrLess(_, _)
StrLess(a, b) ==
    IF b = <<>> THEN FALSE
    ELSE IF a = <<>> THEN TRUE
    ELSE IF Head(a) = Head(b) THEN StrLess(Tail(a), Tail(b))
    ELSE CharCode(Head(a)) < CharCode(Head(b))

\* str::replace with one-character pattern and replacement
Replace(s, from, to) == [i \in 1..Len(s) |-> IF s[i] = from THEN to ELSE s[i]]

\* Itertools::sorted on strings
Sorted(names) == SortSeq(names, StrLess)

\* Itertools::join / [String]::join: the items with sep between them
RECURSIVE JoinText(_, _)
JoinText(items, sep) ==
    IF items = <<>> THEN <<>>
    ELSE IF Len(items) = 1 THEN items[1]
    ELSE items[1] \o <<sep>> \o JoinText(Tail(items), sep)

\* Iterator::map(f).collect()
MapSeq(s, f(_)) == [i \in 1..Len(s) |-> f(s[i])]

\* the sequences over S without repetition, of length at most n
DistinctSeqs(S, n) ==
    UNION { { s \in [1..k -> S] : \A i, j \in 1..k : i # j => s[i] # s[j] } : k \in 0..n }

\* the reorderings of a sequence
Reorderings(s) ==
    { [i \in 1..Len(s) |-> s[p[i]]] : p \in Permutations(1..Len(s)) }


-----------------------------------------------------------------------------
(* Inputs of the orchestrators *)

\* the render calls: one, or two against the same output directory
Runs == {1, 2}

\* the errors FileSystemWriter::write may return
WriteErrors == {"EIO", "ENOSPC"}

\* the error of a generator (erlang::module, javascript::module, ...)
GenError == "GenError"

\* build::Module, as far as the orchestrators read it: its name, the record
\* headers erlang::records finds in its ast, and whether the target's
\* generator returns Ok for it.
ModulePool ==
    { [name |-> <<"a">>, records |-> <<>>, gen |-> "ok"],
      [name |-> <<"a", "/", "s">>, records |-> <<"p", "q">>, gen |-> "ok"],
      [name |-> <<"a", "0">>, records |-> <<"p">>, gen |-> "ok"],
      [name |-> <<"a", "s">>, records |-> <<>>, gen |-> GenError] }

\* a package's modules have distinct names
ModuleLists == DistinctSeqs(ModulePool, MaxModules)

\* names of OTP applications and packages
DepNames == { <<"b">>, <<"c">>, <<"a", "b">> }
DevDepNames == { <<"a">> }
ExtraApplications == { <<"s">> }

\* ErlangAppCodegenConfiguration.package_name_overrides
OverridePool == { <<>>, [n \in { <<"b">>, <<"a">> } |-> <<"z">> \o n] }

\* PackageConfig of a package without dependencies
DefaultConfig ==
    [name |-> "pkg", version |-> "1.0.0", description |-> "",
     target_framework |-> "net8.0",
     application_start_module |-> <<>>,
     dependencies |-> <<>>, dev_dependencies |-> <<>>,
     extra_applications |-> <<>>,
     include_dev_deps |-> FALSE, package_name_overrides |-> <<>>]

\* PackageConfig and ErlangAppCodegenConfiguration of ErlangApp. A HashMap's
\* keys are given in the order its iteration yields them, which is any order;
\* application_start_module is an Option (<<>> is None).
Configs ==
    { [DefaultConfig EXCEPT !.application_start_module = sm,
                            !.dependencies = d, !.dev_dependencies = dd,
                            !.extra_applications = x,
                            !.include_dev_deps = inc,
                            !.package_name_overrides = ov] :
        sm \in { <<>>, <<"a", "/", "s">> },
        d \in DistinctSeqs(DepNames, MaxDeps),
        dd \in DistinctSeqs(DevDepNames, Cardinality(DevDepNames)) \ {<<>>},
        x \in DistinctSeqs(ExtraApplications, Cardinality(ExtraApplications)),
        inc \in BOOLEAN,
        ov \in OverridePool }

Targets == {"Erlang", "ErlangApp", "FSharpApp", "JavaScript"}

\* Utf8Path::join of a directory and a relative file name
Path(dir, file) == [dir |-> dir, file |-> file]

\* JavaScript.prelude_location
PreludeLocation == <<"../prelude", ".mjs">>

-----------------------------------------------------------------------------
(* The file system collaborator *)

\* FileSystemWriter::exists
FsExists(f, path) == path \in DOMAIN f

\* FileSystemWriter::write that returned Ok: the file holds the text
FsWrite(f, path, text) ==
    [p \in DOMAIN f \cup {path} |-> IF p = path THEN text ELSE f[p]]

-----------------------------------------------------------------------------
(* Positions of a render call *)

At(at, i, j) == [at |-> at, i |-> i, j |-> j]
Idle == At("idle", 0, 0)
Start == At("start", 0, 0)
Return == At("return", 0, 0)
Done == At("done", 0, 0)

\* `?` on a Result: an Err returns it from render, an Ok goes on at next
TryIgnoringErr(r, res, next) ==
    /\ pc' = [pc EXCEPT ![r] = next]
    /\ result' = result

Try(r, res, next) ==
    IF res = "ok"
    THEN /\ pc' = [pc EXCEPT ![r] = next]
         /\ result' = result
    ELSE /\ pc' = [pc EXCEPT ![r] = Done]
         /\ result' = [result EXCEPT ![r] = res]

\* what FileSystemWriter::write may return
WriteResults == {"ok"} \cup WriteErrors

\* writer.write(path, text) returning res; a failed write leaves the file as
\* it was. The log keeps every write issued.
WriterWrite(r, path, text, res) ==
    /\ fs' = IF res = "ok" THEN FsWrite(fs, path, text) ELSE fs
    /\ log' = [log EXCEPT ![r] = Append(@,
                 [path |-> path, text |-> text, res |-> res,
                  existed |-> FsExists(fs, path)])]

\* `output?` of a generator's Result, evaluated before the write is called
GeneratorFails(r, m) ==
    /\ m.gen # "ok"
    /\ pc' = [pc EXCEPT ![r] = Done]
    /\ result' = [result EXCEPT ![r] = m.gen]
    /\ UNCHANGED <<fs, log>>

\* Ok(()) at the end of a render
ReturnOk(r) ==
    /\ pc[r] = Return
    /\ pc' = [pc EXCEPT ![r] = Done]
    /\ result' = [result EXCEPT ![r] = "Ok"]
    /\ UNCHANGED <<target, modules, cfg, typescript, fs, log, obs, before>>
    /\ UNCHANGED <<typeVars, genVars>>


-----------------------------------------------------------------------------
(* Erlang::render *)

erl_name(m) == Replace(m.name, "/", "@")

\* erlang::module(&module.ast, &line_numbers): the generated Erlang source
ErlangModuleText(m) == <<"-module(">> \o erl_name(m) \o <<").\n">>

\* one (name, text) of erlang::records(&module.ast)
ErlangRecordText(name) == <<"-record(", name, ", {}).\n">>

NextErlangModule(i) ==
    IF i < Len(modules) THEN At("erlang_module", i + 1, 0) ELSE Return

\* the call: `for module in modules`
Erlang_render(r) ==
    /\ pc[r] = Start
    /\ target = "Erlang"
    /\ pc' = [pc EXCEPT ![r] = NextErlangModule(0)]
    /\ UNCHANGED <<target, modules, cfg, typescript, fs, result, log, obs, before>>
    /\ UNCHANGED <<typeVars, genVars>>

erlang_module(r) ==
    /\ pc[r].at = "erlang_module"
    /\ LET m == modules[pc[r].i]
       IN  \/ GeneratorFails(r, m)
           \/ /\ m.gen = "ok"
              /\ \E res \in WriteResults :
                    /\ WriterWrite(r, Path("build", erl_name(m) \o <<".erl">>),
                                   ErlangModuleText(m), res)
                    /\ Try(r, res, At("erlang_record_headers", pc[r].i, 1))
    /\ UNCHANGED <<target, modules, cfg, typescript, obs, before>>
    /\ UNCHANGED <<typeVars, genVars>>

erlang_record_headers(r) ==
    /\ pc[r].at = "erlang_record_headers"
    /\ LET m == modules[pc[r].i]
           j == pc[r].j
       IN  \/ /\ j <= Len(m.records)
              /\ \E res \in WriteResults :
                    /\ WriterWrite(r,
                          Path("include", erl_name(m) \o <<"_", m.records[j], ".hrl">>),
                          ErlangRecordText(m.records[j]), res)
                    /\ Try(r, res, At("erlang_record_headers", pc[r].i, j + 1))
           \/ /\ j > Len(m.records)
              /\ pc' = [pc EXCEPT ![r] = NextErlangModule(pc[r].i)]
              /\ UNCHANGED <<fs, log, result>>
    /\ UNCHANGED <<target, modules, cfg, typescript, obs, before>>
    /\ UNCHANGED <<typeVars, genVars>>

-----------------------------------------------------------------------------
(* ErlangApp::render *)

\* fn tuple(key, value)
tuple(key, value) == <<"    {", key, ", ">> \o value \o <<"},\n">>

start_module(c) ==
    IF c.application_start_module = <<>> THEN <<>>
    ELSE tuple("mod", <<"{'">> \o Replace(c.application_start_module, "/", "@")
                      \o <<"', []}">>)

\* modules.iter().map(|m| m.name.replace("/", "@")).sorted()
ManifestModulesUnsorted(ms) == MapSeq(ms, erl_name)

ManifestModules(ms) == Sorted(MapSeq(ms, erl_name))

\* self.config.package_name_overrides.get(name).unwrap_or(name)
OverrideName(c, name) ==
    IF name \in DOMAIN c.package_name_overrides
    THEN c.package_name_overrides[name] ELSE name

\* dependencies.keys().chain(dev_dependencies.keys().take_while(..))
\*   .map(overrides).chain(extra_applications.iter()).sorted()
ManifestApplicationsSortedFirst(c) ==
    LET over(n) == OverrideName(c, n)
    IN  MapSeq(Sorted(c.dependencies
                 \o (IF c.include_dev_deps THEN c.dev_dependencies ELSE <<>>)
                 \o c.extra_applications), over)

ManifestApplications(c) ==
    LET over(n) == OverrideName(c, n)
    IN  Sorted(MapSeq(c.dependencies
                 \o (IF c.include_dev_deps THEN c.dev_dependencies ELSE <<>>), over)
               \o c.extra_applications)

\* the format! of the .app file
ErlangAppFormat(c, applications, mods) ==
    <<"{application, ", c.name, ", [\n">>
    \o start_module(c)
    \o <<"    {vsn, \"", c.version, "\"},\n">>
    \o <<"    {applications, [">> \o applications \o <<"]},\n">>
    \o <<"    {description, \"", c.description, "\"},\n">>
    \o <<"    {modules, [">> \o mods \o <<"]},\n">>
    \o <<"    {registered, []}\n", "]}.\n">>

ErlangAppText(c, ms) ==
    ErlangAppFormat(c,
        JoinText(ManifestApplications(c), ",\n                    "),
        JoinText(ManifestModules(ms), ",\n               "))

ErlangAppPath(c) == Path("ebin", <<c.name, ".app">>)

\* the whole call: the Result of its one write is the Result of render
ErlangApp_render(r) ==
    /\ pc[r] = Start
    /\ target = "ErlangApp"
    /\ \E res \in WriteResults :
          /\ WriterWrite(r, ErlangAppPath(cfg), ErlangAppText(cfg, modules), res)
          /\ pc' = [pc EXCEPT ![r] = Done]
          /\ result' = [result EXCEPT ![r] = IF res = "ok" THEN "Ok" ELSE res]
    /\ UNCHANGED <<target, modules, cfg, typescript, obs, before>>
    /\ UNCHANGED <<typeVars, genVars>>


-----------------------------------------------------------------------------
(* FSharpApp::render *)

\* format!("{}.fs", m.name.replace("/", "\\")): the Include of a Compile entry
CompileInclude(m) == Replace(m.name, "/", "\\") \o <<".fs">>

CompileEntry(m) == <<"    <Compile Include=\"">> \o CompileInclude(m) \o <<"\" />">>

\* self.build_dir.join(format!("{}.fs", module.name.replace("/", "\\")))
module_file_path_unreplaced(m) == Path("build", m.name \o <<".fs">>)

module_file_path(m) == Path("build", Replace(m.name, "/", "\\") \o <<".fs">>)

\* the format! of the project file
ProjectFileContent(c, ms) ==
    <<"<Project Sdk=\"Microsoft.NET.Sdk\">\n", "  <PropertyGroup>\n",
      "    <TargetFramework>", c.target_framework, "</TargetFramework>\n",
      "    <RootNamespace>", c.name, "</RootNamespace>\n",
      "  </PropertyGroup>\n", "\n", "  <ItemGroup>\n">>
    \o JoinText(MapSeq(ms, CompileEntry), "\n")
    \o <<"\n", "  </ItemGroup>\n", "\n", "  <ItemGroup>\n",
         "<!-- TODO: Add package references -->", "\n",
         "  </ItemGroup>\n", "</Project>">>

ProjectFilePath(c) == Path("build", <<c.name, ".fsproj">>)

\* fn module(&self, module)
FSharpApp_module(m) == <<"module ">> \o Replace(m.name, "/", "\\") \o <<"\n">>

NextFSharpModule(i) ==
    IF i < Len(modules) THEN At("fsharp_module", i + 1, 0) ELSE Return

\* the call, up to `writer.write(&project_file_path, ..)?`
FSharpApp_render(r) ==
    /\ pc[r] = Start
    /\ target = "FSharpApp"
    /\ \E res \in WriteResults :
          /\ WriterWrite(r, ProjectFilePath(cfg), ProjectFileContent(cfg, modules), res)
          /\ Try(r, res, NextFSharpModule(0))
    /\ UNCHANGED <<target, modules, cfg, typescript, obs, before>>
    /\ UNCHANGED <<typeVars, genVars>>

\* one turn of `for module in modules`
FSharpApp_render_module(r) ==
    /\ pc[r].at = "fsharp_module"
    /\ LET m == modules[pc[r].i]
       IN  \E res \in WriteResults :
              /\ WriterWrite(r, module_file_path(m), FSharpApp_module(m), res)
              /\ Try(r, res, NextFSharpModule(pc[r].i))
    /\ UNCHANGED <<target, modules, cfg, typescript, obs, before>>
    /\ UNCHANGED <<typeVars, genVars>>

-----------------------------------------------------------------------------
(* JavaScript::render *)

\* javascript::module(..) and javascript::ts_declaration(..)
JsModuleText(m) == <<"// module ">> \o m.name
TsDeclarationText(m) == <<"// declarations of ">> \o m.name

\* format!("export * from \"{}\";\n", self.prelude_location)
rexport == <<"export * from \"">> \o PreludeLocation \o <<"\";\n">>

\* rexport.replace(".mjs", ".d.mts")
rexport_declaration == Replace(rexport, ".mjs", ".d.mts")

prelude_path == Path("out", <<"gleam", ".mjs">>)
prelude_declaration_path == Path("out", <<"gleam", ".d.mts">>)

\* where the turn for module i begins
JsModuleAt(i) ==
    IF typescript = "Emit" THEN At("ts_declaration", i, 0) ELSE At("js_module", i, 0)

NextJsModule(i) ==
    IF i < Len(modules) THEN JsModuleAt(i + 1) ELSE At("write_prelude", 0, 0)

\* after the gleam.mjs part of write_prelude
AfterPrelude ==
    IF typescript = "Emit" THEN At("write_prelude_declaration", 0, 0) ELSE Return

\* the call: `for module in modules`
JavaScript_render(r) ==
    /\ pc[r] = Start
    /\ target = "JavaScript"
    /\ pc' = [pc EXCEPT ![r] = NextJsModule(0)]
    /\ before' = [before EXCEPT ![r] = {q \in Runs : pc[q] = Done}]
    /\ UNCHANGED <<target, modules, cfg, typescript, fs, result, log, obs>>
    /\ UNCHANGED <<typeVars, genVars>>

ts_declaration(r) ==
    /\ pc[r].at = "ts_declaration"
    /\ LET m == modules[pc[r].i]
       IN  \/ GeneratorFails(r, m)
           \/ /\ m.gen = "ok"
              /\ \E res \in WriteResults :
                    /\ WriterWrite(r, Path("out", m.name \o <<".d.mts">>),
                                   TsDeclarationText(m), res)
                    /\ Try(r, res, At("js_module", pc[r].i, 0))
    /\ UNCHANGED <<target, modules, cfg, typescript, obs, before>>
    /\ UNCHANGED <<typeVars, genVars>>

js_module(r) ==
    /\ pc[r].at = "js_module"
    /\ LET m == modules[pc[r].i]
       IN  \/ GeneratorFails(r, m)
           \/ /\ m.gen = "ok"
              /\ \E res \in WriteResults :
                    /\ WriterWrite(r, Path("out", m.name \o <<".mjs">>),
                                   JsModuleText(m), res)
                    /\ Try(r, res, NextJsModule(pc[r].i))
    /\ UNCHANGED <<target, modules, cfg, typescript, obs, before>>
    /\ UNCHANGED <<typeVars, genVars>>

\* `if !writer.exists(prelude_path)`: the answer sends the call to the write
\* or past it
PreludeCheckedAlwaysAbsent(r) ==
    /\ pc[r].at = "write_prelude"
    /\ obs' = [obs EXCEPT ![r].mjs = "absent"]
    /\ pc' = [pc EXCEPT ![r] = At("write_prelude_write", 0, 0)]
    /\ UNCHANGED <<target, modules, cfg, typescript, fs, result, log, before>>
    /\ UNCHANGED <<typeVars, genVars>>

write_prelude_exists(r) ==
    /\ pc[r].at = "write_prelude"
    /\ LET there == FsExists(fs, prelude_path)
       IN  /\ obs' = [obs EXCEPT ![r].mjs = IF there THEN "exists" ELSE "absent"]
           /\ pc' = [pc EXCEPT ![r] =
                       IF there THEN AfterPrelude ELSE At("write_prelude_write", 0, 0)]
    /\ UNCHANGED <<target, modules, cfg, typescript, fs, result, log, before>>
    /\ UNCHANGED <<typeVars, genVars>>

\* `writer.write(prelude_path, &rexport)?`
write_prelude_write(r) ==
    /\ pc[r].at = "write_prelude_write"
    /\ \E res \in WriteResults :
          /\ WriterWrite(r, prelude_path, rexport, res)
          /\ Try(r, res, AfterPrelude)
    /\ UNCHANGED <<target, modules, cfg, typescript, obs, before>>
    /\ UNCHANGED <<typeVars, genVars>>

\* `if !writer.exists(prelude_declaration_path)`
write_prelude_declaration_exists(r) ==
    /\ pc[r].at = "write_prelude_declaration"
    /\ LET there == FsExists(fs, prelude_declaration_path)
       IN  /\ obs' = [obs EXCEPT ![r].dmts = IF there THEN "exists" ELSE "absent"]
           /\ pc' = [pc EXCEPT ![r] =
                       IF there THEN Return
                       ELSE At("write_prelude_declaration_write", 0, 0)]
    /\ UNCHANGED <<target, modules, cfg, typescript, fs, result, log, before>>
    /\ UNCHANGED <<typeVars, genVars>>

\* `writer.write(prelude_declaration_path, &rexport)?`
write_prelude_declaration_write(r) ==
    /\ pc[r].at = "write_prelude_declaration_write"
    /\ \E res \in WriteResults :
          /\ WriterWrite(r, prelude_declaration_path, rexport_declaration, res)
          /\ Try(r, res, Return)
    /\ UNCHANGED <<target, modules, cfg, typescript, obs, before>>
    /\ UNCHANGED <<typeVars, genVars>>

-----------------------------------------------------------------------------
(* Specification of one render call, of any orchestrator *)

\* what the output directory may hold before the call
InitialFiles ==
    { <<>>,
      [p \in {prelude_path} |-> <<"old">>],
      [p \in {prelude_path, prelude_declaration_path} |-> <<"old">>] }

NoType == <<>>
NoDoc == <<>>
NoGenerator == <<>>
NoNode == <<>>

\* no Generator method is called
InitNoGen ==
    /\ generator = NoGenerator
    /\ rendered = <<>>
    /\ node = NoNode

InitOrch(first) ==
    /\ pc = [r \in Runs |-> IF r \in first THEN Start ELSE Idle]
    /\ result = [r \in Runs |-> "none"]
    /\ log = [r \in Runs |-> <<>>]
    /\ obs = [r \in Runs |-> [mjs |-> "unchecked", dmts |-> "unchecked"]]
    /\ before = [r \in Runs |-> {}]
    /\ ctype = NoType
    /\ doc = NoDoc
    /\ InitNoGen

Init ==
    /\ target \in Targets
    /\ modules \in ModuleLists
    /\ cfg = DefaultConfig
    /\ typescript \in (IF target = "JavaScript" THEN {"None", "Emit"} ELSE {"None"})
    /\ fs \in (IF target = "JavaScript" THEN InitialFiles ELSE {<<>>})
    /\ InitOrch({1})

Next ==
    \E r \in Runs :
        \/ Erlang_render(r)
        \/ erlang_module(r)
        \/ erlang_record_headers(r)
        \/ ErlangApp_render(r)
        \/ FSharpApp_render(r)
        \/ FSharpApp_render_module(r)
        \/ JavaScript_render(r)
        \/ ts_declaration(r)
        \/ js_module(r)
        \/ write_prelude_exists(r)
        \/ write_prelude_write(r)
        \/ write_prelude_declaration_exists(r)
        \/ write_prelude_declaration_write(r)
        \/ ReturnOk(r)

Spec == Init /\ [][Next]_vars

\* Two JavaScript::render calls on one JavaScript value, in any interleaving
\* of their file-system operations (one after the other included).
InitJs ==
    /\ target = "JavaScript"
    /\ modules \in ModuleLists
    /\ cfg = DefaultConfig
    /\ typescript \in {"None", "Emit"}
    /\ fs \in InitialFiles
    /\ InitOrch(Runs)

NextJs ==
    \E r \in Runs :
        \/ JavaScript_render(r)
        \/ ts_declaration(r)
        \/ js_module(r)
        \/ write_prelude_exists(r)
        \/ write_prelude_write(r)
        \/ write_prelude_declaration_exists(r)
        \/ write_prelude_declaration_write(r)
        \/ ReturnOk(r)

SpecJs == InitJs /\ [][NextJs]_vars

\* One ErlangApp::render call, over the configurations of a package
InitApp ==
    /\ target = "ErlangApp"
    /\ modules \in ModuleLists
    /\ cfg \in Configs
    /\ typescript = "None"
    /\ fs = <<>>
    /\ InitOrch({1})

NextApp == \E r \in Runs : ErlangApp_render(r)

SpecApp == InitApp /\ [][NextApp]_vars


-----------------------------------------------------------------------------
(* The F# generator: names *)

\* the string spelled by a sequence of one-character tokens
RECURSIVE ToStr(_)
ToStr(s) == IF s = <<>> THEN "" ELSE Head(s) \o ToStr(Tail(s))

ReservedWords ==
    { "asr", "land", "lor", "lsl", "lsr", "lxor", "mod", "sig", "break",
      "checked", "component", "const", "constraint", "continue", "event",
      "external", "include", "mixin", "parallel", "process", "protected",
      "pure", "sealed", "tailcall", "trait", "virtual",
      "abstract", "and", "as", "assert", "base", "begin", "class", "default",
      "delegate", "do", "done", "downcast", "downto", "elif", "else", "end",
      "exception", "extern", "false", "finally", "fixed", "for", "fun",
      "function", "global", "if", "in", "inherit", "inline", "interface",
      "internal", "lazy", "let", "match", "member", "module", "mutable",
      "namespace", "new", "not", "null", "of", "open", "or", "override",
      "private", "public", "rec", "return", "select", "static", "struct",
      "then", "to", "true", "try", "type", "upcast", "use", "val", "void",
      "when", "while", "with", "yield" }

is_reserved_word(name) == ToStr(name) \in ReservedWords

\* str::split on a one-character separator: the segments, empty ones included
RECURSIVE Split(_, _)
Split(s, sep) ==
    IF s = <<>> THEN << <<>> >>
    ELSE LET rest == Split(Tail(s), sep)
         IN  IF Head(s) = sep THEN << <<>> >> \o rest
             ELSE << <<Head(s)>> \o rest[1] >> \o Tail(rest)

\* the token for two grave accents (U+0060 twice), the quotes of a verbatim
\* identifier; the character itself cannot be written in a TLA+ string
DoubleBacktick == "<U+0060 U+0060>"

santitize_name(name) ==
    LET segment(seg) ==
            IF is_reserved_word(seg)
            THEN <<DoubleBacktick>> \o seg \o <<DoubleBacktick>> ELSE seg
    IN  JoinText(MapSeq(Split(name, "/"), segment), ".")

\* Generator::module_declaration for a module of this name
module_declaration(name) == <<"module rec ">> \o santitize_name(name)


-----------------------------------------------------------------------------
(* Properties of the orchestrators *)

\* how many writes of path a call issued, and how many of them succeeded
WritesOf(r, path) == Cardinality({i \in DOMAIN log[r] : log[r][i].path = path})
OkWritesOf(r, path) ==
    Cardinality({i \in DOMAIN log[r] : log[r][i].path = path /\ log[r][i].res = "ok"})

PreludePaths == {prelude_path, prelude_declaration_path}

\* C1. Prelude debounce. When one JavaScript::render call begins after another
\* on the same output directory has returned, neither issues a write for a
\* prelude file (gleam.mjs, gleam.d.mts) that exists at that moment; and when
\* both return Ok, the second call saw gleam.mjs exist and issued no write for
\* it, and the first wrote it once if it saw it absent and not at all
\* otherwise, so the two calls together write it at most once, exactly once
\* into a directory that did not hold it. With TypeScript declarations
\* emitted the same holds for gleam.d.mts.
C1_PreludeDebounce ==
    \A q, r \in Runs :
        q \in before[r] =>
            /\ \A c \in {q, r} : \A i \in DOMAIN log[c] :
                  log[c][i].path \in PreludePaths => ~log[c][i].existed
            /\ (result[q] = "Ok" /\ result[r] = "Ok") =>
                  /\ obs[r].mjs = "exists"
                  /\ WritesOf(r, prelude_path) = 0
                  /\ WritesOf(q, prelude_path) = (IF obs[q].mjs = "absent" THEN 1 ELSE 0)
                  /\ typescript = "Emit" =>
                        /\ obs[r].dmts = "exists"
                        /\ WritesOf(r, prelude_declaration_path) = 0
                        /\ WritesOf(q, prelude_declaration_path)
                              = (IF obs[q].dmts = "absent" THEN 1 ELSE 0)
                  /\ typescript # "Emit" =>
                        WritesOf(q, prelude_declaration_path)
                            + WritesOf(r, prelude_declaration_path) = 0

\* Two calls in sequence into a directory without the prelude files, with
\* declarations emitted: the first wrote both, the second returned Ok.
C1_Witness ==
    \E q, r \in Runs :
        /\ q \in before[r]
        /\ result[q] = "Ok" /\ result[r] = "Ok"
        /\ typescript = "Emit"
        /\ modules # <<>>
        /\ WritesOf(q, prelude_path) = 1
        /\ WritesOf(q, prelude_declaration_path) = 1
        /\ obs[r].mjs = "exists" /\ obs[r].dmts = "exists"

\* C2. With two JavaScript::render calls running concurrently on one output
\* directory, no two calls both see gleam.mjs absent and both write it: the
\* file is written at most once in every interleaving.
C2_PreludeWrittenAtMostOnce ==
    /\ ~ \E q, r \in Runs :
            /\ q # r
            /\ obs[q].mjs = "absent" /\ OkWritesOf(q, prelude_path) > 0
            /\ obs[r].mjs = "absent" /\ OkWritesOf(r, prelude_path) > 0
    /\ \A q, r \in Runs :
            q # r => OkWritesOf(q, prelude_path) + OkWritesOf(r, prelude_path) <= 1

\* the writes a render issues when none fails and every generator returns Ok
RECURSIVE ErlangWrites(_)
ErlangWrites(ms) ==
    IF ms = <<>> THEN <<>>
    ELSE LET m == Head(ms)
             hrl(name) == Path("include", erl_name(m) \o <<"_", name, ".hrl">>)
         IN  <<Path("build", erl_name(m) \o <<".erl">>)>>
             \o MapSeq(m.records, hrl) \o ErlangWrites(Tail(ms))

RECURSIVE JsModuleWrites(_)
JsModuleWrites(ms) ==
    IF ms = <<>> THEN <<>>
    ELSE (IF typescript = "Emit"
          THEN <<Path("out", Head(ms).name \o <<".d.mts">>)>> ELSE <<>>)
         \o <<Path("out", Head(ms).name \o <<".mjs">>)>>
         \o JsModuleWrites(Tail(ms))

AllWrites(r) ==
    CASE target = "Erlang" -> ErlangWrites(modules)
      [] target = "ErlangApp" -> <<Path("ebin", <<cfg.name, ".app">>)>>
      [] target = "FSharpApp" ->
            <<Path("build", <<cfg.name, ".fsproj">>)>>
            \o [i \in 1..Len(modules) |->
                   Path("build", Replace(modules[i].name, "/", "\\") \o <<".fs">>)]
      [] target = "JavaScript" ->
            JsModuleWrites(modules)
            \o (IF obs[r].mjs = "absent" THEN <<prelude_path>> ELSE <<>>)
            \o (IF obs[r].dmts = "absent" THEN <<prelude_declaration_path>> ELSE <<>>)

\* C3. In every render (Erlang, ErlangApp, FSharpApp, JavaScript) a write that
\* returns an error is the last write of the call, which has returned with
\* that very error: no retry, no later write. A call returns a write error
\* only if its last write returned it; and a call that has returned returned
\* Ok exactly if it issued all its writes and every one succeeded.
C3_WriteErrorPropagates ==
    \A r \in Runs :
        LET l == log[r]
        IN  /\ \A i \in DOMAIN l :
                  l[i].res # "ok" =>
                      /\ i = Len(l)
                      /\ pc[r] = Done
                      /\ result[r] = l[i].res
            /\ result[r] \in WriteErrors => (l # <<>> /\ l[Len(l)].res = result[r])
            /\ pc[r] = Done =>
                  (result[r] = "Ok" <=>
                      /\ [i \in DOMAIN l |-> l[i].path] = AllWrites(r)
                      /\ \A i \in DOMAIN l : l[i].res = "ok")

\* A write failed after another had succeeded and with writes still to come.
C3_Witness ==
    \E r \in Runs :
        /\ pc[r] = Done
        /\ result[r] = "ENOSPC"
        /\ Len(log[r]) = 2
        /\ target \in {"Erlang", "FSharpApp", "JavaScript"}
        /\ Len(modules) = 2


\* non-decreasing in the order of Ord for str
IsAscending(names) ==
    \A i, j \in DOMAIN names : i < j => ~StrLess(names[j], names[i])

\* C8. The text ErlangApp::render writes is the same for every reordering of
\* the module list and of the dependency, dev-dependency and extra-application
\* collections; its module list and its applications list are in ascending
\* order, the applications as they are named after the package-name
\* overrides.
C8_ManifestOrderInvariant ==
    (target = "ErlangApp" /\ log[1] # <<>>) =>
        LET text == log[1][1].text
        IN  /\ \A ms \in Reorderings(modules),
                  d \in Reorderings(cfg.dependencies),
                  dd \in Reorderings(cfg.dev_dependencies),
                  x \in Reorderings(cfg.extra_applications) :
                    ErlangAppText([cfg EXCEPT !.dependencies = d,
                                              !.dev_dependencies = dd,
                                              !.extra_applications = x], ms) = text
            /\ LET apps == ManifestApplications(cfg)
                   mods == ManifestModules(modules)
               IN  /\ IsAscending(apps)
                   /\ IsAscending(mods)
                   /\ text = ErlangAppFormat(cfg,
                                 JoinText(apps, ",\n                    "),
                                 JoinText(mods, ",\n               "))

\* A manifest was written for modules and dependencies given out of order,
\* with an override that moves a dependency in the order.
C8_Witness ==
    /\ target = "ErlangApp"
    /\ result[1] = "Ok"
    /\ Len(modules) = 2
    /\ StrLess(modules[1].name, modules[2].name)
    /\ StrLess(erl_name(modules[2]), erl_name(modules[1]))
    /\ Len(cfg.dependencies) = 2
    /\ StrLess(cfg.dependencies[1], cfg.dependencies[2])
    /\ StrLess(OverrideName(cfg, cfg.dependencies[2]),
               OverrideName(cfg, cfg.dependencies[1]))
    /\ cfg.include_dev_deps /\ cfg.dev_dependencies # <<>>
    /\ cfg.extra_applications # <<>>

\* the module written by the i-th turn of FSharpApp::render's loop
FSharpWrites(r) == SubSeq(log[r], 2, Len(log[r]))

IsPrefix(p, t) == Len(p) <= Len(t) /\ SubSeq(t, 1, Len(p)) = p

\* C9. Every module source file FSharpApp::render writes opens with the
\* header Generator::module_declaration gives the module: `module rec `
\* and the module's name with '/' replaced by '.'.
C9_ModuleRecHeader ==
    target = "FSharpApp" =>
        \A i \in DOMAIN FSharpWrites(1) :
            IsPrefix(module_declaration(modules[i].name), FSharpWrites(1)[i].text)

\* the Include paths of the Compile entries of a project file, in order
RECURSIVE UpTo(_, _)
UpTo(t, stop) ==
    IF t = <<>> \/ Head(t) = stop THEN <<>> ELSE <<Head(t)>> \o UpTo(Tail(t), stop)

RECURSIVE CompileIncludes(_)
CompileIncludes(t) ==
    IF t = <<>> THEN <<>>
    ELSE IF Head(t) = "    <Compile Include=\""
         THEN <<UpTo(Tail(t), "\" />")>> \o CompileIncludes(Tail(t))
         ELSE CompileIncludes(Tail(t))

\* C10. FSharpApp::render writes the project file before any other file; a
\* call that returned Ok wrote after it exactly one source file per input
\* module, in input order and each to a path of its own, and the project
\* file's Compile Include entries are, in order, exactly the paths of these
\* files relative to the build directory.
C10_ProjectListsWrittenFiles ==
    target = "FSharpApp" =>
        LET l == log[1]
        IN  /\ l # <<>> => l[1].path = Path("build", <<cfg.name, ".fsproj">>)
            /\ (pc[1] = Done /\ result[1] = "Ok") =>
                  /\ Len(l) = 1 + Len(modules)
                  /\ \A i \in DOMAIN modules :
                        /\ l[i + 1].text = FSharpApp_module(modules[i])
                        /\ l[i + 1].path.dir = l[1].path.dir
                  /\ \A i, j \in DOMAIN l : i # j => l[i].path # l[j].path
                  /\ CompileIncludes(l[1].text)
                        = [i \in DOMAIN modules |-> l[i + 1].path.file]

\* Two modules, one of them with a path separator in its name, were written.
C10_Witness ==
    /\ target = "FSharpApp"
    /\ pc[1] = Done /\ result[1] = "Ok"
    /\ Len(modules) = 2
    /\ \E i \in DOMAIN modules : \E k \in DOMAIN modules[i].name :
          modules[i].name[k] = "/"


-----------------------------------------------------------------------------
(* The F# generator: custom types *)

\* A Document is the sequence of its text tokens; line() is the token Line.
\* nest and group choose the layout of the lines and add no text.
Line == "<line>"

\* Option::None of an argument's label
None == <<>>

\* type_::Type of a constructor argument
\* the types of the prelude are named in the module gleam
IntType == [tag |-> "Named", module |-> "gleam", name |-> "Int"]
FloatType == [tag |-> "Named", module |-> "gleam", name |-> "Float"]

\* the arguments of the pool: unlabelled, or labelled x or y
ArgPool ==
    { [label |-> None, type |-> IntType],
      [label |-> <<"x">>, type |-> IntType],
      [label |-> <<"x">>, type |-> FloatType],
      [label |-> <<"y">>, type |-> IntType] }

\* the argument lists of a constructor: a label occurs at most once in one
ArgLists ==
    UNION { { a \in [1..k -> ArgPool] :
                \A i, j \in 1..k :
                    (i # j /\ a[i].label # None) => a[i].label # a[j].label }
            : k \in 0..MaxArgs }

TypeName == <<"T">>
ConstructorNames == { <<"A">>, <<"T">> }

\* the constructor lists of a CustomType: RecordConstructors with distinct
\* names
ConstructorLists ==
    UNION { { [i \in 1..Len(names) |-> [name |-> names[i], arguments |-> args[i]]] :
                args \in [1..Len(names) -> ArgLists] }
            : names \in DistinctSeqs(ConstructorNames, Cardinality(ConstructorNames)) }

CustomTypes ==
    { [name |-> TypeName, publicity |-> "Public", opaque |-> FALSE,
       typed_parameters |-> <<>>, constructors |-> cs] : cs \in ConstructorLists }

map_publicity(publicity) ==
    CASE publicity = "Public" -> <<>>
      [] publicity = "Internal" -> <<"internal ">>
      [] publicity = "Private" -> <<"private ">>

\* type_to_fsharp, for the named types without arguments
type_to_fsharp(t) ==
    CASE t.name = "Int" -> <<"int">>
      [] t.name = "Float" -> <<"float">>
      [] t.name = "String" -> <<"string">>
      [] t.name = "Bool" -> <<"bool">>
      [] t.name = "Nil" -> <<"unit">>
      [] t.name = "List" -> <<"list">>
      [] OTHER -> <<t.name>>

\* Type::is_fun
is_fun(t) == t.tag = "Fn"

\* type_params: the pool's types have no parameters
type_params(t) ==
    IF t.typed_parameters # <<>>
    THEN <<"<">> \o JoinText(MapSeq(t.typed_parameters, type_to_fsharp), ", ") \o <<">">>
    ELSE <<>>

is_fsharp_union_type_without_empty_check(t) ==
    IF Len(t.constructors) # 1 THEN TRUE
    ELSE LET c == t.constructors[1]
         IN  IF \/ c.name # t.name
                \/ \E i \in DOMAIN c.arguments : c.arguments[i].label = None
             THEN TRUE
             ELSE FALSE

is_fsharp_union_type(t) ==
    IF Len(t.constructors) # 1 THEN TRUE
    ELSE LET c == t.constructors[1]
         IN  IF \/ c.name # t.name
                \/ c.arguments = <<>>
                \/ \E i \in DOMAIN c.arguments : c.arguments[i].label = None
             THEN TRUE
             ELSE FALSE

record_type(t) ==
    LET constructor == t.constructors[1]
        field(r) ==
            IF r.label # None
            THEN santitize_name(r.label) \o <<": ">> \o type_to_fsharp(r.type)
            ELSE type_to_fsharp(r.type)
        opacity == IF t.opaque THEN <<Line, "private ", Line>> ELSE <<>>
    IN  <<"type ">> \o map_publicity(t.publicity) \o t.name \o type_params(t)
        \o <<" = ">> \o opacity
        \o <<"{ ">> \o JoinText(MapSeq(constructor.arguments, field), "; ") \o <<" }">>


\* t.constructors.iter().sorted_by(|a, b| Ord::cmp(&a.name, &b.name))
constructors_as_declared(t) == t.constructors

sorted_constructors(t) ==
    LET by_name(a, b) == StrLess(a.name, b.name)
    IN  SortSeq(t.constructors, by_name)

\* the (field_index, type, constructor) pushed for every labelled argument,
\* in the order of the pushes
RECURSIVE LabelledFields(_)
LabelledFields(cs) ==
    IF cs = <<>> THEN <<>>
    ELSE LET c == Head(cs)
             entry(i) == [label |-> c.arguments[i].label, index |-> i - 1,
                          type |-> c.arguments[i].type, constructor |-> c]
             labelled(e) == e.label # None
         IN  SelectSeq([i \in 1..Len(c.arguments) |-> entry(i)], labelled)
             \o LabelledFields(Tail(cs))

\* the HashMap named_fields: label -> Vec<(index, type, constructor)>
named_fields(t) ==
    LET pushed == LabelledFields(sorted_constructors(t))
    IN  [l \in { pushed[i].label : i \in DOMAIN pushed } |->
            LET of_label(e) == e.label = l IN SelectSeq(pushed, of_label)]

\* the constructors of the union, `Name of field * field` each
union_case(c) ==
    LET field(r) ==
            LET type_ == type_to_fsharp(r.type)
                type_doc == IF is_fun(r.type) THEN <<"(">> \o type_ \o <<")">> ELSE type_
            IN  IF r.label # None THEN r.label \o <<": ">> \o type_doc ELSE type_doc
    IN  IF c.arguments = <<>> THEN c.name
        ELSE c.name \o <<" of ">> \o JoinText(MapSeq(c.arguments, field), " * ")

\* a set of names in ascending order
RECURSIVE SortedNames(_)
SortedNames(S) ==
    IF S = {} THEN <<>>
    ELSE LET least == CHOOSE x \in S : \A y \in S : ~StrLess(y, x)
         IN  <<least>> \o SortedNames(S \ {least})

\* the pattern slots of one match arm: `_` everywhere but at index
discards_bound_at_one_based(label, index, constructor) ==
    [k \in 1..Len(constructor.arguments) |-> IF k = index THEN label ELSE <<"_">>]

arm_discards(label, index, constructor) ==
    [k \in 1..Len(constructor.arguments) |-> IF k = index + 1 THEN label ELSE <<"_">>]

\* the match arms of the accessor of a label, one per entry of its list,
\* sorted by constructor name
accessor_cases(label, type_loc_list) ==
    LET by_name(a, b) == StrLess(a.constructor.name, b.constructor.name)
        arm(e) == [constructor |-> e.constructor.name,
                   discards |-> arm_discards(label, e.index, e.constructor),
                   result |-> label]
    IN  MapSeq(SortSeq(type_loc_list, by_name), arm)

\* whether the filter_map keeps a label
meets_requirements_in_some_constructor(t, type_loc_list) ==
    \A i \in DOMAIN type_loc_list :
        /\ type_loc_list[i].index = type_loc_list[1].index
        /\ type_loc_list[i].type = type_loc_list[1].type

meets_requirements(t, type_loc_list) ==
    /\ Len(type_loc_list) = Len(t.constructors)
    /\ \A i \in DOMAIN type_loc_list :
          /\ type_loc_list[i].index = type_loc_list[1].index
          /\ type_loc_list[i].type = type_loc_list[1].type

\* member_declarations: the accessors, sorted by label
member_declarations(t) ==
    LET fields == named_fields(t)
        kept(l) == meets_requirements(t, fields[l])
        accessor(l) == [label |-> l, cases |-> accessor_cases(l, fields[l])]
    IN  MapSeq(SelectSeq(SortedNames(DOMAIN fields), kept), accessor)

\* the text of one accessor
member_doc(type_name, accessor) ==
    LET case_doc(arm) ==
            <<"| ">> \o type_name \o <<".">> \o arm.constructor \o <<" ", "(">>
            \o JoinText(arm.discards, ", ") \o <<")", " -> ">> \o arm.result
    IN  <<"member this.">> \o accessor.label \o <<" = ", Line, "match this with", Line>>
        \o JoinText(MapSeq(accessor.cases, case_doc), Line)

discriminated_union(t) ==
    LET type_name == t.name
        constructors == MapSeq(sorted_constructors(t), union_case)
        members(a) == member_doc(type_name, a)
        bar(c) == <<"| ">> \o c
        opacity == IF t.opaque THEN <<Line, "private ", Line>> ELSE <<Line>>
    IN  <<"type ">> \o map_publicity(t.publicity) \o type_name \o type_params(t)
        \o <<" =">> \o opacity
        \o JoinText(MapSeq(constructors, bar), Line)
        \o <<Line>>
        \o JoinText(MapSeq(member_declarations(t), members), Line)

\* Generator::custom_type, called on the type; the Document it returns
custom_type(t) ==
    IF is_fsharp_union_type(t) THEN discriminated_union(t) ELSE record_type(t)

RenderCustomType ==
    /\ doc = NoDoc
    /\ doc' = custom_type(ctype)
    /\ UNCHANGED ctype
    /\ UNCHANGED <<orchVars, genVars>>

\* Specification of Generator::custom_type on one declaration
InitTypes ==
    /\ ctype \in CustomTypes
    /\ doc = NoDoc
    /\ target = "FSharpApp"
    /\ modules = <<>>
    /\ cfg = DefaultConfig
    /\ typescript = "None"
    /\ fs = <<>>
    /\ pc = [r \in Runs |-> Idle]
    /\ result = [r \in Runs |-> "none"]
    /\ log = [r \in Runs |-> <<>>]
    /\ obs = [r \in Runs |-> [mjs |-> "unchecked", dmts |-> "unchecked"]]
    /\ before = [r \in Runs |-> {}]
    /\ InitNoGen

NextTypes == RenderCustomType

SpecTypes == InitTypes /\ [][NextTypes]_vars


-----------------------------------------------------------------------------
(* Properties of custom types *)

Tokens(d) == { d[i] : i \in DOMAIN d }

\* a record declaration is `type T = { .. }`, a union `type T =` and its cases
IsRecordDoc(d) == "{ " \in Tokens(d) /\ " }" \in Tokens(d) /\ " =" \notin Tokens(d)
IsUnionDoc(d) == " =" \in Tokens(d) /\ "{ " \notin Tokens(d)

\* the record shape of the data model
RecordShape(t) ==
    /\ Len(t.constructors) = 1
    /\ t.constructors[1].name = t.name
    /\ Len(t.constructors[1].arguments) >= 1
    /\ \A i \in DOMAIN t.constructors[1].arguments :
          t.constructors[1].arguments[i].label # None

\* C4. A custom type is classified as a record, and lowered as one, if and
\* only if it has exactly one constructor, named as the type, with at least
\* one argument and a label on every argument; every other type is
\* classified as a union and lowered as a discriminated union.
C4_RecordIffShape ==
    doc # NoDoc =>
        /\ is_fsharp_union_type(ctype) <=> ~RecordShape(ctype)
        /\ RecordShape(ctype) <=> IsRecordDoc(doc)
        /\ ~RecordShape(ctype) <=> IsUnionDoc(doc)

\* A single constructor named as the type and without arguments was lowered,
\* as a union.
C4_Witness ==
    /\ doc # NoDoc
    /\ Len(ctype.constructors) = 1
    /\ ctype.constructors[1].name = ctype.name
    /\ ctype.constructors[1].arguments = <<>>
    /\ IsUnionDoc(doc)

\* the labels of the `member this.<L>` accessors of a declaration, and how
\* many accessors it has
AccessorAt(d) == { i \in DOMAIN d : d[i] = "member this." }
AccessorLabels(d) == { UpTo(SubSeq(d, i + 1, Len(d)), " = ") : i \in AccessorAt(d) }

LabelsOf(t) ==
    UNION { { t.constructors[i].arguments[k].label :
                k \in DOMAIN t.constructors[i].arguments }
            : i \in DOMAIN t.constructors } \ {None}

\* L is in every constructor, at one position and with one type
SharedByAll(t, L) ==
    \E k \in 1..MaxArgs + 1 : \E ty \in {IntType, FloatType} :
        \A i \in DOMAIN t.constructors :
            LET a == t.constructors[i].arguments
            IN  k <= Len(a) /\ a[k].label = L /\ a[k].type = ty

\* C5. The declaration of a union-shaped type has a `member this.<L>`
\* accessor for a label L of the type if and only if L occurs in every
\* constructor, at the same position and with the same type; it has one
\* accessor per such label.
C5_AccessorIffShared ==
    (doc # NoDoc /\ ~RecordShape(ctype)) =>
        /\ AccessorLabels(doc) = { L \in LabelsOf(ctype) : SharedByAll(ctype, L) }
        /\ Cardinality(AccessorAt(doc)) = Cardinality(AccessorLabels(doc))

\* Two constructors share x at one position and with one type and do not
\* share y: the declaration has the accessor of x alone.
C5_Witness ==
    /\ doc # NoDoc
    /\ Len(ctype.constructors) = 2
    /\ LabelsOf(ctype) = { <<"x">>, <<"y">> }
    /\ AccessorLabels(doc) = { <<"x">> }


\* p occurs in d as a run of consecutive tokens
Contains(d, p) ==
    \E i \in 0..(Len(d) - Len(p)) : SubSeq(d, i + 1, i + Len(p)) = p

\* the slots of an arm that bind a name
BoundSlots(arm) == { k \in DOMAIN arm.discards : arm.discards[k] # <<"_">> }

\* what the match of an accessor yields for the value `constructor(values)`:
\* the value in the slot that binds the name the arm returns
ApplyAccessor(accessor, constructor, values) ==
    LET arm == accessor.cases[CHOOSE i \in DOMAIN accessor.cases :
                                 accessor.cases[i].constructor = constructor.name]
    IN  values[CHOOSE k \in DOMAIN arm.discards : arm.discards[k] = arm.result]

\* C6. Accessor soundness. Every accessor in the declaration of a union has
\* exactly one match arm per constructor of the type; the arm of constructor
\* C has arity(C) pattern slots, binds the label in the slot where C declares
\* it and has a wildcard in every other slot, and returns the bound name: 
\* applied to a value built with C it yields C's argument at that position.
C6_AccessorSound ==
    (doc # NoDoc /\ ~RecordShape(ctype)) =>
        \A n \in DOMAIN member_declarations(ctype) :
            LET a == member_declarations(ctype)[n]
            IN  /\ Contains(doc, member_doc(ctype.name, a))
                /\ Len(a.cases) = Len(ctype.constructors)
                /\ \A i \in DOMAIN ctype.constructors :
                      LET c == ctype.constructors[i]
                          arms == { j \in DOMAIN a.cases : a.cases[j].constructor = c.name }
                      IN  /\ Cardinality(arms) = 1
                          /\ \A j \in arms :
                                LET arm == a.cases[j]
                                IN  /\ Len(arm.discards) = Len(c.arguments)
                                    /\ Cardinality(BoundSlots(arm)) = 1
                                    /\ arm.result = a.label
                                    /\ \A k \in BoundSlots(arm) :
                                          /\ arm.discards[k] = a.label
                                          /\ c.arguments[k].label = a.label
                          /\ \A k \in DOMAIN c.arguments :
                                c.arguments[k].label = a.label =>
                                    ApplyAccessor(a, c, [m \in DOMAIN c.arguments |-> m]) = k

\* An accessor was emitted for a label that two constructors declare in their
\* second position, and none for what they declare in their first.
C6_Witness ==
    /\ doc # NoDoc
    /\ Len(ctype.constructors) = 2
    /\ AccessorLabels(doc) # {}
    /\ \A i \in DOMAIN ctype.constructors :
          /\ Len(ctype.constructors[i].arguments) = 2
          /\ ctype.constructors[i].arguments[2].label \in AccessorLabels(doc)
          /\ ctype.constructors[i].arguments[1].label \notin AccessorLabels(doc)

\* C7. The declaration emitted for a union is the same for every order in
\* which the type's constructors are declared: its cases and the arms of its
\* accessors are in ascending order of constructor name and its accessors in
\* ascending order of label.
C7_UnionOrderInvariant ==
    (doc # NoDoc /\ ~RecordShape(ctype)) =>
        /\ \A cs \in Reorderings(ctype.constructors) :
              custom_type([ctype EXCEPT !.constructors = cs]) = doc
        /\ LET name_of(c) == c.name
               label_of(a) == a.label
               arm_of(arm) == arm.constructor
               cases == MapSeq(sorted_constructors(ctype), union_case)
               bar(c) == <<"| ">> \o c
           IN  /\ IsAscending(MapSeq(sorted_constructors(ctype), name_of))
               /\ Contains(doc, JoinText(MapSeq(cases, bar), Line))
               /\ IsAscending(MapSeq(member_declarations(ctype), label_of))
               /\ \A n \in DOMAIN member_declarations(ctype) :
                     IsAscending(MapSeq(member_declarations(ctype)[n].cases, arm_of))

\* A union whose constructors are declared in descending order of name, with
\* two accessors, was lowered.
C7_Witness ==
    /\ doc # NoDoc
    /\ Len(ctype.constructors) = 2
    /\ StrLess(ctype.constructors[2].name, ctype.constructors[1].name)
    /\ AccessorLabels(doc) = { <<"x">>, <<"y">> }


-----------------------------------------------------------------------------
(* String literals: unicode_escape_sequence_pattern and string_inner *)

\* longest string literal of the model, in pieces
MaxPieces == 5

\* A string value is a sequence of one-character tokens.
Backslash == "\\"

StringPieces ==
    { <<Backslash>>, <<"u", "{", "a", "}">>, <<"}">>, <<" ">>, <<"x">> }

RECURSIVE Flatten(_)
Flatten(ps) == IF ps = <<>> THEN <<>> ELSE Head(ps) \o Flatten(Tail(ps))

\* What the lexer accepts in a string literal: a backslash begins the
\* escape of a backslash or a unicode escape with hexadecimal digits.
RECURSIVE IsSourceString(_, _)
IsSourceString(s, i) ==
    IF i > Len(s) THEN TRUE
    ELSE IF s[i] # Backslash THEN IsSourceString(s, i + 1)
    ELSE IF i + 1 <= Len(s) /\ s[i + 1] = Backslash THEN IsSourceString(s, i + 2)
    ELSE /\ i + 4 <= Len(s)
         /\ SubSeq(s, i + 1, i + 4) = <<"u", "{", "a", "}">>
         /\ IsSourceString(s, i + 5)

StringValues ==
    { v \in { Flatten(ps) : ps \in UNION { [1..n -> StringPieces] : n \in 0..MaxPieces } } :
        IsSourceString(v, 1) }

\* \S of the pattern
IsNonSpace(c) == c # " "

\* (\\+) taken from position i: the first position after the run of backslashes
RECURSIVE SlashRunEnd(_, _)
SlashRunEnd(s, i) ==
    IF i <= Len(s) /\ s[i] = Backslash THEN SlashRunEnd(s, i + 1) ELSE i

\* (\S+) taken from position i: the last position of the run, i - 1 if empty
RECURSIVE NonSpaceRunEnd(_, _)
NonSpaceRunEnd(s, i) ==
    IF i <= Len(s) /\ IsNonSpace(s[i]) THEN NonSpaceRunEnd(s, i + 1) ELSE i - 1

\* the captures of a match that begins at position i, with the backslashes
\* ending before j and the non-space run ending at one of closing
captures(s, i, j, closing) ==
    IF /\ j > i
       /\ j + 1 <= Len(s)
       /\ s[j] = "u"
       /\ s[j + 1] = "{"
       /\ closing # {}
    THEN [slashes |-> SubSeq(s, i, j - 1),
          unicode |-> SubSeq(s, j + 2, (CHOOSE p \in closing : \A q \in closing : q <= p) - 1),
          end |-> CHOOSE p \in closing : \A q \in closing : q <= p]
    ELSE [slashes |-> <<>>, unicode |-> <<>>, end |-> 0]

\* the closing braces that the greedy \S+ taken after position j can give
\* back characters down to
closing_braces(s, j) == { p \in (j + 3)..NonSpaceRunEnd(s, j + 2) : s[p] = "}" }

\* the match with the backslashes ending before j
match_after_slashes(s, i, j) == captures(s, i, j, closing_braces(s, j))

\* the leftmost match of (\\+)(u)\{(\S+)\} that begins at position i:
\* [slashes, unicode, end], or end = 0 when nothing matches there;
\* the greedy \S+ gives back characters down to the last closing brace
unicode_escape_sequence_pattern(s, i) == match_after_slashes(s, i, SlashRunEnd(s, i))

\* the closure handed to replace_all
Replacement(caps) ==
    IF Len(caps.slashes) % 2 = 0
    THEN caps.slashes \o <<"u", "{">> \o caps.unicode \o <<"}">>
    ELSE caps.slashes \o <<"u">> \o caps.unicode

RECURSIVE replace_all(_, _)

\* one step of replace_all: caps is the match that begins at position i
replace_match(s, i, caps) ==
    IF caps.end = 0
    THEN <<s[i]>> \o replace_all(s, i + 1)
    ELSE Replacement(caps) \o replace_all(s, caps.end + 1)

\* Regex::replace_all: the matches are found left to right and do not overlap
replace_all(s, i) ==
    IF i > Len(s) THEN <<>>
    ELSE replace_match(s, i, unicode_escape_sequence_pattern(s, i))

string_inner(value) == replace_all(value, 1)

string(value) == <<"\"">> \o string_inner(value) \o <<"\"">>

StringLiterals == { [kind |-> "String", value |-> v] : v \in StringValues }

\* no orchestrator call is involved
InitOrchIdle ==
    /\ target = "FSharpApp"
    /\ modules = <<>>
    /\ cfg = DefaultConfig
    /\ typescript = "None"
    /\ fs = <<>>
    /\ pc = [r \in Runs |-> Idle]
    /\ result = [r \in Runs |-> "none"]
    /\ log = [r \in Runs |-> <<>>]
    /\ obs = [r \in Runs |-> [mjs |-> "unchecked", dmts |-> "unchecked"]]
    /\ before = [r \in Runs |-> {}]
    /\ doc = NoDoc

\* string_inner on the value of a string literal
LowerString ==
    /\ rendered = <<>>
    /\ rendered' = <<string_inner(node.value)>>
    /\ UNCHANGED <<orchVars, typeVars, generator, node>>

\* string_inner on text that string_inner returned
LowerStringAgain ==
    /\ Len(rendered) = 1
    /\ rendered' = Append(rendered, string_inner(rendered[1]))
    /\ UNCHANGED <<orchVars, typeVars, generator, node>>

\* Specification of Generator::string_inner on one string literal
InitStrings ==
    /\ InitOrchIdle
    /\ ctype = NoType
    /\ generator = NoGenerator
    /\ rendered = <<>>
    /\ node \in StringLiterals

NextStrings == LowerString \/ LowerStringAgain

SpecStrings == InitStrings /\ [][NextStrings]_vars

-----------------------------------------------------------------------------
(* Properties of string literals *)

HexDigits == {"a"}

RECURSIVE HexRunEnd(_, _)
HexRunEnd(s, i) ==
    IF i <= Len(s) /\ s[i] \in HexDigits THEN HexRunEnd(s, i + 1) ELSE i - 1

\* The occurrence of an escape that begins at position i: a run of
\* backslashes, u, an opening brace, hexadecimal digits and the closing
\* brace that follows them; 0 when there is none.
EscapeEnd(s, i) ==
    LET j == SlashRunEnd(s, i)
        k == HexRunEnd(s, j + 2)
    IN  IF /\ j > i
           /\ j + 1 <= Len(s)
           /\ s[j] = "u"
           /\ s[j + 1] = "{"
           /\ k >= j + 2
           /\ k + 1 <= Len(s)
           /\ s[k + 1] = "}"
        THEN k + 1
        ELSE 0

\* every occurrence rewritten by the parity of its backslashes, one by one
RECURSIVE EscapesRewritten(_, _)
EscapesRewritten(s, i) ==
    IF i > Len(s) THEN <<>>
    ELSE LET e == EscapeEnd(s, i)
             j == SlashRunEnd(s, i)
         IN  IF e = 0 THEN <<s[i]>> \o EscapesRewritten(s, i + 1)
             ELSE IF (j - i) % 2 = 0
                  THEN SubSeq(s, i, e) \o EscapesRewritten(s, e + 1)
                  ELSE SubSeq(s, i, j) \o SubSeq(s, j + 2, e - 1)
                       \o EscapesRewritten(s, e + 1)

\* C16: string_inner rewrites every occurrence of a \u{...} escape that is
\* preceded by an odd number of backslashes to \u... (braces removed), also
\* when several escapes follow each other without whitespace, leaves an
\* occurrence preceded by an even number unchanged, and changes nothing else.
C16_EveryEscapeRewritten ==
    rendered # <<>> => rendered[1] = EscapesRewritten(node.value, 1)

\* C17: lowering is idempotent: string_inner applied to text that string_inner
\* returned gives that text back.
C17_StringInnerIdempotent ==
    Len(rendered) = 2 => rendered[2] = rendered[1]

-----------------------------------------------------------------------------
(* Clause guards: optional_clause_guard, clause_guard, bare_clause_guard *)

\* most operators (binary operators and negations) of a guard of the model
MaxGuardOperators == 2

\* the ClauseGuard variants that clause_guard wraps in parentheses
BinaryOperatorGuards ==
    { "Or", "And", "Equals", "NotEquals", "GtInt", "GtEqInt", "LtInt", "LtEqInt",
      "GtFloat", "GtEqFloat", "LtFloat", "LtEqFloat", "AddInt", "AddFloat",
      "SubInt", "SubFloat", "MultInt", "MultFloat", "DivInt", "DivFloat",
      "RemainderInt" }

\* the text bare_clause_guard puts between the operands
OperatorText(kind) ==
    CASE kind = "Or" -> " || "
      [] kind = "And" -> " && "
      [] kind = "Equals" -> " = "
      [] kind = "NotEquals" -> " <> "
      [] kind \in {"GtInt", "GtFloat"} -> " > "
      [] kind \in {"GtEqInt", "GtEqFloat"} -> " >= "
      [] kind \in {"LtInt", "LtFloat"} -> " < "
      [] kind \in {"LtEqInt", "LtEqFloat"} -> " =< "
      [] kind \in {"AddInt", "AddFloat"} -> " + "
      [] kind \in {"SubInt", "SubFloat"} -> " - "
      [] kind \in {"MultInt", "MultFloat"} -> " * "
      [] kind \in {"DivInt", "DivFloat"} -> " / "
      [] kind = "RemainderInt" -> " % "

GuardPlaceholder == "// TODO: Implement other guard types"

BoolType == [tag |-> "Named", module |-> "gleam", name |-> "Bool"]
NilType == [tag |-> "Named", module |-> "gleam", name |-> "Nil"]

\* Type::is_bool: the type Bool of the prelude
is_bool(t) == t.tag = "Named" /\ t.name = "Bool" /\ t.module = "gleam"

\* Type::is_nil: the type Nil of the prelude
is_nil(t) == t.tag = "Named" /\ t.name = "Nil" /\ t.module = "gleam"

\* panic!: the call unwinds and returns no document. The token stands in the
\* place of the document the arm would have returned; Unwind gives the outcome
\* of the outermost call.
Panic == "<panic>"

Panicked == <<Panic>>

Unwind(d) == IF Panic \in Tokens(d) THEN Panicked ELSE d

\* Generator::tuple
Generator_tuple(elements) == <<"(">> \o JoinText(elements, ", ") \o <<")">>

RECURSIVE constant_expression(_)

\* constant_expression: the Record constants of the model have no arguments
\* and no field map, and their type is no function type, so a Record that is
\* neither a Bool nor Nil returns its tag
constant_expression(expression) ==
    CASE expression.kind \in {"Int", "Float"} -> <<expression.value>>
      [] expression.kind = "String" -> string(expression.value)
      [] expression.kind = "Tuple" ->
            Generator_tuple([i \in DOMAIN expression.elements |->
                     constant_expression(expression.elements[i])])
      [] expression.kind = "Record" ->
            IF is_bool(expression.type) /\ expression.name = <<"T", "r", "u", "e">>
            THEN <<"true">>
            ELSE IF is_bool(expression.type)
                    /\ expression.name = <<"F", "a", "l", "s", "e">>
            THEN <<"false">>
            ELSE IF is_nil(expression.type) THEN <<"()">>
            ELSE expression.tag
      [] expression.kind = "Invalid" -> <<Panic>>

RECURSIVE bare_clause_guard(_)

clause_guard_without_parentheses(guard) == bare_clause_guard(guard)

clause_guard(guard) ==
    IF guard.kind \in BinaryOperatorGuards
    THEN <<"(">> \o bare_clause_guard(guard) \o <<")">>
    ELSE bare_clause_guard(guard)

bare_clause_guard(guard) ==
    CASE guard.kind = "Not" -> <<"not ">> \o bare_clause_guard(guard.expression)
      [] guard.kind \in BinaryOperatorGuards ->
            clause_guard(guard.left) \o <<OperatorText(guard.kind)>>
                \o clause_guard(guard.right)
      [] guard.kind = "Var" -> <<guard.name>>
      [] guard.kind = "Constant" -> constant_expression(guard.literal)
      [] OTHER -> <<GuardPlaceholder>>

optional_clause_guard(guard, additional_guards) ==
    LET guard_doc == IF guard = None THEN <<>> ELSE <<bare_clause_guard(guard)>>
        guards_count == Len(guard_doc) + Len(additional_guards)
        all == additional_guards \o guard_doc
        guards_docs == [i \in DOMAIN all |->
                          IF guards_count > 1
                          THEN <<"(">> \o all[i] \o <<")">>
                          ELSE all[i]]
        joined == JoinText(guards_docs, " && ")
    IN  IF joined = <<>> THEN joined ELSE <<" when ">> \o joined

\* The guards of the model: typed trees over these leaves.
GuardLeaves ==
    { [kind |-> "Var", name |-> "x", type |-> "Bool"],
      [kind |-> "Var", name |-> "y", type |-> "Int"],
      [kind |-> "Constant", literal |-> [kind |-> "Int", value |-> "1"], type |-> "Int"],
      [kind |-> "TupleIndex", index |-> 2, type |-> "Bool",
       tuple |-> [kind |-> "Var", name |-> "xs", type |-> "Tuple"]],
      [kind |-> "FieldAccess", label |-> "c", type |-> "Bool",
       container |-> [kind |-> "FieldAccess", label |-> "b", type |-> "B",
                      container |-> [kind |-> "Var", name |-> "a", type |-> "A"]]],
      [kind |-> "ModuleSelect", module_name |-> "hero", label |-> "ironman",
       type |-> "String",
       literal |-> [kind |-> "String", value |-> <<"T">>]] }

GuardOperators == {"And", "Equals", "AddInt"}

\* what the type checker accepts as operands of an operator
OperandsTyped(kind, left, right) ==
    CASE kind = "And" -> left.type = "Bool" /\ right.type = "Bool"
      [] kind = "Equals" -> left.type = right.type
      [] kind = "AddInt" -> left.type = "Int" /\ right.type = "Int"

OperatorType(kind) == IF kind = "AddInt" THEN "Int" ELSE "Bool"

RECURSIVE GuardsOfSize(_)
GuardsOfSize(n) ==
    IF n = 0 THEN GuardLeaves
    ELSE { [kind |-> "Not", expression |-> e, type |-> "Bool"] :
             e \in { g \in GuardsOfSize(n - 1) : g.type = "Bool" } }
         \cup UNION { UNION { { [kind |-> k, left |-> l, right |-> r,
                                  type |-> OperatorType(k)] :
                                  k \in { o \in GuardOperators : OperandsTyped(o, l, r) } } :
                                <<l, r>> \in GuardsOfSize(m) \X GuardsOfSize(n - 1 - m) } :
                      m \in 0..(n - 1) }

Guards ==
    { g \in UNION { GuardsOfSize(n) : n \in 0..MaxGuardOperators } : g.type = "Bool" }

\* Generator::clause lowers the guard of a clause
LowerGuard ==
    /\ doc = NoDoc
    /\ doc' = optional_clause_guard(node, <<>>)
    /\ UNCHANGED <<orchVars, ctype, genVars>>

\* Specification of the lowering of one clause guard
InitGuards ==
    /\ InitOrchIdle
    /\ ctype = NoType
    /\ generator = NoGenerator
    /\ rendered = <<>>
    /\ node \in Guards

NextGuards == LowerGuard

SpecGuards == InitGuards /\ [][NextGuards]_vars

-----------------------------------------------------------------------------
(* Properties of clause guards *)

IsBinaryOperatorGuard(g) == g.kind \in BinaryOperatorGuards

RECURSIVE SubGuards(_)
SubGuards(g) ==
    {g} \cup (CASE g.kind = "Not" -> SubGuards(g.expression)
                [] IsBinaryOperatorGuard(g) -> SubGuards(g.left) \cup SubGuards(g.right)
                [] OTHER -> {})

\* the text of a guard when exactly the operands of binary operators that are
\* binary operator guards themselves are parenthesized, and nothing else is
RECURSIVE GroupedText(_)
GroupedOperand(h) ==
    IF IsBinaryOperatorGuard(h) THEN <<"(">> \o GroupedText(h) \o <<")">>
    ELSE GroupedText(h)

GroupedText(g) ==
    IF IsBinaryOperatorGuard(g)
    THEN GroupedOperand(g.left) \o <<OperatorText(g.kind)>> \o GroupedOperand(g.right)
    ELSE IF g.kind = "Not" THEN <<"not ">> \o GroupedText(g.expression)
    ELSE bare_clause_guard(g)

\* C12: in the lowered guard of a clause an operand of a binary operator is
\* in parentheses exactly when it is itself a binary operator guard; variables
\* and constants are never parenthesized and neither is the guard as a whole.
C12_OperandParenthesizedIffBinary ==
    doc # NoDoc => doc = <<" when ">> \o GroupedText(node)

\* C12 witness: x == (y == 1) and (y == 1) == x were lowered, as was a
\* comparison of two leaves.
C12_Witness ==
    /\ doc # NoDoc
    /\ node.kind = "Equals"
    /\ node.left.kind = "Var"
    /\ node.right.kind = "Equals"
    /\ node.right.left.kind = "Var"
    /\ node.right.right.kind = "Constant"
    /\ doc = <<" when ", "x", " = ", "(", "y", " = ", "1", ")">>

\* C13: a negation of a binary operator guard is emitted with the operand in
\* parentheses, so that `not` applies to the whole operand and the text reads
\* back as the source guard.
C13_NotAppliesToWholeOperand ==
    doc # NoDoc =>
        \A h \in SubGuards(node) :
            (h.kind = "Not" /\ IsBinaryOperatorGuard(h.expression)) =>
                Contains(doc, <<"not ", "(">> \o bare_clause_guard(h.expression) \o <<")">>)

IndexText(index) == CASE index = 0 -> "1" [] index = 1 -> "2" [] index = 2 -> "3"

\* the target expression of an access guard: element index + 1 of the tuple,
\* the field of the record, the constant of the module
RECURSIVE GuardAccess(_)
GuardAccess(g) ==
    CASE g.kind = "Var" -> <<g.name>>
      [] g.kind = "TupleIndex" -> GuardAccess(g.tuple) \o <<".Item", IndexText(g.index)>>
      [] g.kind = "FieldAccess" -> GuardAccess(g.container) \o <<".", g.label>>
      [] g.kind = "ModuleSelect" -> <<g.module_name, ".", g.label>>

\* C14: a tuple-index, field-access or module-qualified guard lowers to the
\* access it denotes, without parentheses, and no guard lowers to a placeholder.
C14_LeafGuardsLowered ==
    doc # NoDoc =>
        /\ GuardPlaceholder \notin Tokens(doc)
        /\ node.kind \in {"TupleIndex", "FieldAccess", "ModuleSelect"} =>
               doc = <<" when ">> \o GuardAccess(node)

-----------------------------------------------------------------------------
(* Patterns and constants: pattern, constant_expression, fun_args *)

STRING_PATTERN_PREFIX == "Gleam__codegen__prefix"

STRING_PATTERN_PARTS == "Gleam_codegen_string_parts"

\* a guard of Pattern::Constructor that reads the name alone
IsNamedConstructor(p, name) == p.name = name

\* the guards type_.is_bool() && name == "True" and name == "False" of
\* Pattern::Constructor
IsBoolConstructor(p, name) == is_bool(p.type) /\ p.name = name

\* invert_field_map: from label -> index to index -> label
invert_field_map(field_map) ==
    [i \in { field_map.fields[l] : l \in DOMAIN field_map.fields } |->
        CHOOSE l \in DOMAIN field_map.fields : field_map.fields[l] = i]

RECURSIVE pattern(_)

\* the arm of Pattern::Constructor with a field map as long as the arguments
record_pattern(p) ==
    LET inverted == invert_field_map(p.constructor.field_map)
        arguments == p.arguments
        skipped(i) == p.spread # None /\ arguments[i].value.kind = "Discard"
        label(i) == IF arguments[i].label # None THEN arguments[i].label
                    ELSE IF (i - 1) \in DOMAIN inverted THEN inverted[i - 1]
                    ELSE None
        args[i \in 0..Len(arguments)] ==
            IF i = 0 THEN <<>>
            ELSE IF skipped(i) \/ label(i) = None THEN args[i - 1]
            ELSE Append(args[i - 1],
                        label(i) \o <<" = ">> \o pattern(arguments[i].value))
    IN  <<"{ ">> \o JoinText(args[Len(arguments)], "; ") \o <<" }">>

\* the last arm of Pattern::Constructor
tagged_pattern(p) ==
    LET args == IF p.arguments = <<>> THEN <<"()">>
                ELSE <<"(">>
                       \o JoinText([i \in DOMAIN p.arguments |->
                                      pattern(p.arguments[i].value)], ", ")
                       \o <<")">>
    IN  <<"(">> \o p.name \o args \o <<")">>

\* the patterns of the model: literals, variables, discards, tuples, string
\* prefixes, constructors and the invalid pattern; lists, bit arrays, uses of
\* variables and `as` are lowered by arms that no pattern of the model takes
pattern(p) ==
    CASE p.kind \in {"Int", "Float"} -> <<p.value>>
      [] p.kind = "String" -> string(p.value)
      [] p.kind = "Variable" -> p.name
      [] p.kind = "Discard" -> p.name
      [] p.kind = "Tuple" ->
            <<"(">> \o JoinText([i \in DOMAIN p.elems |-> pattern(p.elems[i])], ", ")
              \o <<")">>
      [] p.kind = "StringPrefix" ->
            LET suffix_binding_name ==
                    IF p.right_side_assignment.kind = "Variable"
                    THEN p.right_side_assignment.name ELSE <<"_">>
            IN  IF p.left_side_assignment = None
                THEN <<STRING_PATTERN_PREFIX, " ">> \o string(p.left_side_string)
                       \o <<" ">> \o suffix_binding_name
                ELSE <<STRING_PATTERN_PARTS, " ">> \o string(p.left_side_string)
                       \o <<" (">> \o p.left_side_assignment \o <<", ">>
                       \o suffix_binding_name \o <<")">>
      [] p.kind = "Invalid" -> <<Panic>>
      [] p.kind = "Constructor" ->
            IF /\ p.constructor.field_map # None
               /\ Len(p.arguments) = Cardinality(DOMAIN p.constructor.field_map.fields)
            THEN record_pattern(p)
            ELSE IF IsBoolConstructor(p, <<"T", "r", "u", "e">>) THEN <<"true">>
            ELSE IF IsBoolConstructor(p, <<"F", "a", "l", "s", "e">>) THEN <<"false">>
            ELSE IF is_nil(p.type) THEN <<"()">>
            ELSE tagged_pattern(p)

\* ArgNames::get_variable_name
get_variable_name(names) ==
    IF names.kind \in {"Named", "NamedLabelled"} THEN names.name ELSE None

arg_name(arg) ==
    IF get_variable_name(arg.names) # None THEN get_variable_name(arg.names) ELSE <<"_">>

fun_args(arguments) ==
    IF arguments = <<>> THEN <<"()">>
    ELSE JoinText([i \in DOMAIN arguments |->
                     <<"(">> \o arg_name(arguments[i]) \o <<": ">>
                       \o type_to_fsharp(arguments[i].type) \o <<")">>], " ")

-----------------------------------------------------------------------------
(* Expressions: expression, record_instantiation, function_call, record_access *)

\* An identifier (EcoString) is a sequence of one-character tokens.

\* the arm of TypedExpr::Call that is taken for a record constructor: the
\* pattern constructors_count: 1, field_map: Some(..) and its guard
IsRecordInstantiation(fun) ==
    /\ fun.kind = "Var"
    /\ fun.constructor.variant.tag = "Record"
    /\ fun.constructor.variant.constructors_count = 1
    /\ fun.constructor.variant.field_map # None
    /\ fun.constructor.variant.arity
         = Cardinality(DOMAIN fun.constructor.variant.field_map.fields)

RECURSIVE expression(_)
RECURSIVE statement(_)
RECURSIVE statements(_, _)

record_instantiation(field_map, args) ==
    LET inverted == invert_field_map(field_map)
        arg(i) == santitize_name(inverted[i - 1]) \o <<" = ">> \o expression(args[i].value)
    IN  <<"{ ">> \o JoinText([i \in DOMAIN args |-> arg(i)], "; ") \o <<" }">>

function_call(fun, args) ==
    LET args_doc ==
            IF args = <<>> THEN <<"()">>
            ELSE <<" ">> \o JoinText([i \in DOMAIN args |->
                                        <<"(">> \o expression(args[i].value) \o <<")">>], " ")
        fun_expr == IF fun.kind = "Fn"
                    THEN <<"(">> \o expression(fun) \o <<")">>
                    ELSE expression(fun)
    IN  fun_expr \o args_doc

record_access(record, label) == expression(record) \o <<".">> \o label

\* the operator of binop
BinOpText(name) ==
    CASE name = "And" -> "&&"
      [] name = "Or" -> "||"
      [] name = "Eq" -> "="
      [] name = "NotEq" -> "<>"
      [] name \in {"LtInt", "LtFloat"} -> "<"
      [] name \in {"LtEqInt", "LtEqFloat"} -> "<="
      [] name \in {"GtInt", "GtFloat"} -> ">"
      [] name \in {"GtEqInt", "GtEqFloat"} -> ">="
      [] name \in {"AddInt", "AddFloat"} -> "+"
      [] name \in {"SubInt", "SubFloat"} -> "-"
      [] name \in {"MultInt", "MultFloat"} -> "*"
      [] name \in {"DivInt", "DivFloat"} -> "/"
      [] name = "RemainderInt" -> "%"
      [] name = "Concatenate" -> "+"

binop(name, left, right) ==
    expression(left) \o <<" ", BinOpText(name), " ">> \o expression(right)

\* block: begin, the statements with no return type, end
block(s) == <<"begin", Line>> \o statements(s, None) \o <<Line, "end">>

\* fun: the break before `end` is a space when the group fits on its line,
\* which it cannot when the body holds a line()
fun(args, body) ==
    LET body_doc == statements(body, None)
    IN  <<"fun">> \o fun_args(args) \o <<" -> begin ">> \o body_doc
          \o <<IF Line \in Tokens(body_doc) THEN Line ELSE " ">> \o <<"end">>

statement_sequence(s) == JoinText([i \in DOMAIN s |-> statement(s[i]).doc], Line)

clause_consequence(consequence) ==
    IF consequence.kind = "Block" THEN statement_sequence(consequence.statements)
    ELSE expression(consequence)

\* clause: pattern and each of alternative_patterns is a list of patterns, one
\* for each subject
clause(c) ==
    LET all == <<c.pattern>> \o c.alternative_patterns
        patterns_doc ==
            JoinText([i \in DOMAIN all |->
                        IF Len(all[i]) = 1 THEN pattern(all[i][1])
                        ELSE Generator_tuple([j \in DOMAIN all[i] |-> pattern(all[i][j])])],
                     " | ")
        guard == optional_clause_guard(c.guard, <<>>)
    IN  patterns_doc \o guard \o <<" ->", Line>> \o clause_consequence(c.then)

case(subjects, clauses) ==
    LET subjects_doc ==
            IF Len(subjects) = 1 THEN expression(subjects[1])
            ELSE Generator_tuple([i \in DOMAIN subjects |-> expression(subjects[i])])
    IN  <<"match ">> \o subjects_doc \o <<" with", Line>>
          \o JoinText([i \in DOMAIN clauses |-> <<"| ">> \o clause(clauses[i])], Line)

\* The expressions of the model are literals, variables, blocks, anonymous
\* functions, calls, binary operations, case expressions, tuples, negations,
\* record accesses and the invalid expression.
expression(expr) ==
    CASE expr.kind \in {"Int", "Float"} -> <<expr.value>>
      [] expr.kind = "String" -> string(expr.value)
      [] expr.kind = "Block" -> block(expr.statements)
      [] expr.kind = "Var" ->
            (CASE expr.name = <<"N", "i", "l">> -> <<"()">>
               [] expr.name = <<"T", "r", "u", "e">> -> <<"true">>
               [] expr.name = <<"F", "a", "l", "s", "e">> -> <<"false">>
               [] OTHER -> expr.name)
      [] expr.kind = "Fn" -> fun(expr.args, expr.body)
      [] expr.kind = "Call" ->
            IF IsRecordInstantiation(expr.fun)
            THEN record_instantiation(expr.fun.constructor.variant.field_map, expr.args)
            ELSE function_call(expr.fun, expr.args)
      [] expr.kind = "BinOp" -> binop(expr.name, expr.left, expr.right)
      [] expr.kind = "Case" -> case(expr.subjects, expr.clauses)
      [] expr.kind = "Tuple" ->
            Generator_tuple([i \in DOMAIN expr.elems |-> expression(expr.elems[i])])
      [] expr.kind = "NegateInt" ->
            IF expr.value.kind = "NegateInt"
            THEN <<"-", "(">> \o expression(expr.value) \o <<")">>
            ELSE <<"-">> \o expression(expr.value)
      [] expr.kind = "RecordAccess" -> record_access(expr.record, expr.label)
      [] expr.kind = "NegateBool" -> <<"// TODO: TypedExpr::NegateBool">>
      [] expr.kind = "Invalid" -> <<"// TODO: TypedExpr::Invalid">>

\* What the type checker records for a constructor: the FieldMap holds the
\* labelled arguments by position and is None when there is no label.
FieldMapOf(c) ==
    LET labelled == { i \in DOMAIN c.arguments : c.arguments[i].label # None }
    IN  IF labelled = {} THEN None
        ELSE [arity |-> Len(c.arguments),
              fields |-> [l \in { c.arguments[i].label : i \in labelled } |->
                            (CHOOSE i \in labelled : c.arguments[i].label = l) - 1]]

RecordVariant(t, c) ==
    [tag |-> "Record", name |-> c.name, arity |-> Len(c.arguments),
     field_map |-> FieldMapOf(c), constructors_count |-> Len(t.constructors)]

IntLiteral == [kind |-> "Int", value |-> "1"]

\* the call c(1, .., 1) of a constructor of t
ConstructorCall(t, c) ==
    [kind |-> "Call",
     fun |-> [kind |-> "Var", name |-> c.name,
              constructor |-> [variant |-> RecordVariant(t, c)]],
     args |-> [i \in DOMAIN c.arguments |->
                 [label |-> c.arguments[i].label, value |-> IntLiteral]]]

\* the call f(1) of a function of the module
FunctionCall ==
    [kind |-> "Call",
     fun |-> [kind |-> "Var", name |-> <<"f">>,
              constructor |-> [variant |-> [tag |-> "ModuleFn"]]],
     args |-> << [label |-> None, value |-> IntLiteral] >>]

CallsOf(t) ==
    { ConstructorCall(t, t.constructors[i]) :
        i \in { k \in DOMAIN t.constructors : t.constructors[k].arguments # <<>> } }
    \cup {FunctionCall}

\* Generator::expression on a call
LowerCall ==
    /\ doc = NoDoc
    /\ doc' = expression(node)
    /\ UNCHANGED <<orchVars, ctype, genVars>>

\* Specification of the lowering of one call in a module that declares ctype
InitCalls ==
    /\ InitOrchIdle
    /\ generator = NoGenerator
    /\ rendered = <<>>
    /\ \E t \in CustomTypes : \E call \in CallsOf(t) :
          /\ ctype = t
          /\ node = call

NextCalls == LowerCall

SpecCalls == InitCalls /\ [][NextCalls]_vars

-----------------------------------------------------------------------------
(* Properties of calls *)

IsRecordLiteral(d) == d # <<>> /\ d[1] = "{ " /\ d[Len(d)] = " }"

CallsConstructor(call) == call.fun.constructor.variant.tag = "Record"

\* C19: a call lowers to a record literal exactly when it calls a constructor
\* of a type that the classifier gives the record shape; a call of a
\* constructor of a type declared as a union, and every other call, lowers to
\* an application.
C19_CallDispatchAgreesWithClassifier ==
    doc # NoDoc =>
        (IsRecordLiteral(doc) <=> (CallsConstructor(node) /\ RecordShape(ctype)))

-----------------------------------------------------------------------------
(* Functions: function, statement, statements *)

\* longest function body of the model, in statements
MaxStatements == 2

\* statement: the document and last_var; the values bound in the model are
\* not case expressions
statement(s) ==
    CASE s.kind = "Expression" ->
            [doc |-> expression(s.expression), last_var |-> None]
      [] s.kind = "Assignment" /\ s.pattern.kind = "StringPrefix" ->
            LET right == s.pattern.right_side_assignment
                suffix_binding_name ==
                    IF right.kind = "Variable" THEN right.name ELSE <<"_">>
                label == IF s.pattern.left_side_assignment # None
                         THEN s.pattern.left_side_assignment \o <<", ">>
                         ELSE <<"_, ">>
            IN  [doc |-> <<"let (", STRING_PATTERN_PARTS, " ">>
                          \o string(s.pattern.left_side_string) \o <<" (">>
                          \o label \o suffix_binding_name \o <<")) = ">>
                          \o expression(s.value),
                 last_var |-> IF right.kind = "Variable" THEN right.name
                              ELSE expression(s.value)]
      [] s.kind = "Assignment" /\ s.pattern.kind # "StringPrefix" ->
            [doc |-> <<"let ">> \o pattern(s.pattern) \o <<" = ">> \o expression(s.value),
             last_var |-> pattern(s.pattern)]
      [] s.kind = "Use" ->
            [doc |-> <<"// TODO: Implement use statements">>, last_var |-> None]

\* the second half of statements: last_var is that of the last statement, and
\* it is pushed unless the return type is Nil
push_last_var(statement_info, return_type) ==
    LET last_var == IF statement_info = <<>> THEN None
                    ELSE statement_info[Len(statement_info)].last_var
        res == [i \in DOMAIN statement_info |-> statement_info[i].doc]
    IN  IF last_var # None
        THEN IF return_type # None
             THEN IF ~is_nil(return_type) THEN Append(res, last_var) ELSE res
             ELSE Append(res, last_var)
        ELSE res

\* the push of last_var with the test of the return type left out
statements_always_pushing(s, return_type) ==
    JoinText(push_last_var([i \in DOMAIN s |-> statement(s[i])], None), Line)

\* statements: return_type is None or a Type
statements(s, return_type) ==
    JoinText(push_last_var([i \in DOMAIN s |-> statement(s[i])], return_type), Line)

\* every module qualifier taken for the path of a file
ExternalFiles_of_any_qualifier(f) ==
    IF f.external_fsharp # None THEN {f.external_fsharp.module_name} ELSE {}

\* the file a function's external_fsharp refers to, if its module qualifier
\* is a path: what function() inserts into external_files
ExternalFiles(f) ==
    IF /\ f.external_fsharp # None
       /\ \E i \in DOMAIN f.external_fsharp.module_name :
             f.external_fsharp.module_name[i] \in {"/", Backslash}
    THEN {f.external_fsharp.module_name}
    ELSE {}

\* the entry point arm taken whatever the function is called
AnyNameIsEntryPoint(name) == TRUE

IsEntryPointName(name) == name = <<"m", "a", "i", "n">>

\* function: the functions of the model carry no documentation and are not
\* deprecated
function(f) ==
    LET name == IF f.name # None THEN f.name ELSE <<"_">>
        body ==
            IF f.external_fsharp # None
            THEN LET calling_args ==
                        IF f.arguments = <<>> THEN <<"()">>
                        ELSE JoinText([i \in DOMAIN f.arguments |-> arg_name(f.arguments[i])], " ")
                     qualifier ==
                        IF ExternalFiles(f) # {} THEN <<>>
                        ELSE f.external_fsharp.module_name \o <<".">>
                 IN  qualifier \o f.external_fsharp.fn_name \o <<" ">> \o calling_args
            ELSE <<"begin", Line>> \o statements(f.body, f.return_type) \o <<Line, "end">>
        args == fun_args(f.arguments)
        entry ==
            IF IsEntryPointName(name)
            THEN IF Len(f.arguments) = 1 /\ f.arguments[1].names.kind = "Named"
                 THEN [annotation |-> <<"[<EntryPoint>]", Line>>,
                       args |-> <<"(">> \o f.arguments[1].names.name \o <<": string[])">>]
                 ELSE IF \/ f.arguments = <<>>
                         \/ Len(f.arguments) = 1 /\ f.arguments[1].names.kind = "Discard"
                 THEN [annotation |-> <<"[<EntryPoint>]", Line>>,
                       args |-> <<"(_: string[])">>]
                 ELSE [annotation |-> <<>>, args |-> args]
            ELSE [annotation |-> <<>>, args |-> args]
    IN  entry.annotation \o <<"let ">> \o map_publicity(f.publicity) \o name
        \o <<" ">> \o entry.args \o <<" = ">> \o body

\* The arguments of the model: x, do, a discard and the labelled y.
FunctionArgPool ==
    { [names |-> [kind |-> "Named", name |-> <<"x">>], type |-> IntType],
      [names |-> [kind |-> "Named", name |-> <<"d", "o">>], type |-> IntType],
      [names |-> [kind |-> "Discard", name |-> <<"_">>], type |-> IntType],
      [names |-> [kind |-> "NamedLabelled", label |-> <<"l">>, name |-> <<"y">>],
       type |-> IntType] }

\* argument lists: a variable name is bound once
FunctionArgLists ==
    UNION { { a \in [1..k -> FunctionArgPool] :
                \A i, j \in 1..k :
                    (i # j /\ get_variable_name(a[i].names) # None)
                        => get_variable_name(a[i].names) # get_variable_name(a[j].names) }
            : k \in 0..MaxArgs }

LocalVariable(name) ==
    [kind |-> "Var", name |-> name,
     constructor |-> [variant |-> [tag |-> "LocalVariable"]]]

StatementPool ==
    { [kind |-> "Expression", expression |-> LocalVariable(<<"x">>)],
      [kind |-> "Assignment", value |-> IntLiteral,
       pattern |-> [kind |-> "Variable", name |-> <<"x">>]],
      [kind |-> "Assignment", value |-> IntLiteral,
       pattern |-> [kind |-> "Variable", name |-> <<"d", "o">>]],
      [kind |-> "Assignment", value |-> IntLiteral,
       pattern |-> [kind |-> "Discard", name |-> <<"_">>]],
      [kind |-> "Assignment", value |-> LocalVariable(<<"x">>),
       pattern |-> [kind |-> "StringPrefix", left_side_string |-> <<"a">>,
                    left_side_assignment |-> None,
                    right_side_assignment |-> [kind |-> "Variable", name |-> <<"y">>]]],
      [kind |-> "Assignment", value |-> LocalVariable(<<"x">>),
       pattern |-> [kind |-> "StringPrefix", left_side_string |-> <<"a">>,
                    left_side_assignment |-> None,
                    right_side_assignment |-> [kind |-> "Discard", name |-> <<"_">>]]],
      [kind |-> "Use"] }

FunctionBodies == UNION { [1..n -> StatementPool] : n \in 1..MaxStatements }

FunctionNames == { <<"m", "a", "i", "n">>, <<"f">> }

\* external_fsharp: a module qualifier, or the path of a file
ExternalPool ==
    { [module_name |-> <<"M">>, fn_name |-> <<"g">>],
      [module_name |-> <<".", "/", "m">>, fn_name |-> <<"g">>] }

Functions ==
    { [name |-> n, arguments |-> a, body |-> b, return_type |-> t,
       publicity |-> "Public", external_fsharp |-> None] :
        n \in FunctionNames, a \in FunctionArgLists, b \in FunctionBodies,
        t \in {IntType, NilType} }
    \cup
    { [name |-> n, arguments |-> a, body |-> << [kind |-> "Use"] >>,
       return_type |-> IntType, publicity |-> "Public", external_fsharp |-> e] :
        n \in FunctionNames, a \in FunctionArgLists, e \in ExternalPool }

\* Generator::new
Generator_new(module) == [module |-> module, external_files |-> {}]

ModuleOf(name, definitions) == [name |-> name, definitions |-> definitions]

\* Generator::function on a function of the generator's module
LowerFunction ==
    /\ doc = NoDoc
    /\ doc' = function(node)
    /\ generator' = [generator EXCEPT !.external_files = @ \cup ExternalFiles(node)]
    /\ UNCHANGED <<orchVars, ctype, rendered, node>>

\* Specification of Generator::function on one function
InitFunctions ==
    /\ InitOrchIdle
    /\ ctype = NoType
    /\ rendered = <<>>
    /\ node \in Functions
    /\ generator = Generator_new(ModuleOf(<<"a">>, <<node>>))

NextFunctions == LowerFunction

SpecFunctions == InitFunctions /\ [][NextFunctions]_vars

-----------------------------------------------------------------------------
(* Properties of functions *)

\* the text between `begin` and `end` of a function with a body
BodyText(d) ==
    LET b == CHOOSE i \in DOMAIN d : d[i] = "begin"
    IN  SubSeq(d, b + 2, Len(d) - 2)

LastStatement(f) == f.body[Len(f.body)]

\* the name a let-binding binds, None if it binds none
BoundName(s) ==
    IF s.pattern.kind = "Variable" THEN s.pattern.name
    ELSE IF s.pattern.kind = "StringPrefix"
            /\ s.pattern.right_side_assignment.kind = "Variable"
         THEN s.pattern.right_side_assignment.name
    ELSE None

StatementDocs(f) == JoinText([i \in DOMAIN f.body |-> statement(f.body[i]).doc], Line)

\* C15: when the last statement of a function body is a let-binding,
\* a final expression (the bound name) is appended to the statements exactly
\* when the declared return type is not Nil; when it is a bare expression
\* nothing is appended, whatever the earlier statements are.
C15_TrailingValueRule ==
    (doc # NoDoc /\ node.external_fsharp = None) =>
        LET last == LastStatement(node)
            own == StatementDocs(node)
        IN  /\ last.kind = "Expression" => BodyText(doc) = own
            /\ (last.kind = "Assignment" /\ is_nil(node.return_type)) => BodyText(doc) = own
            /\ (last.kind = "Assignment" /\ ~is_nil(node.return_type)) =>
                  /\ IsPrefix(own \o <<Line>>, BodyText(doc))
                  /\ Len(BodyText(doc)) > Len(own) + 1
                  /\ BoundName(last) # None => BodyText(doc) = own \o <<Line>> \o BoundName(last)

\* C15 witness: the body `let x = 1; let do = 1` of a function that returns
\* Int was lowered with `do` appended after the two bindings.
C15_Witness ==
    /\ doc # NoDoc
    /\ node.external_fsharp = None
    /\ Len(node.body) = 2
    /\ node.body[1].kind = "Assignment"
    /\ LastStatement(node).kind = "Assignment"
    /\ BoundName(LastStatement(node)) = <<"d", "o">>
    /\ ~is_nil(node.return_type)
    /\ BodyText(doc) = <<"let ", "x", " = ", "1", Line, "let ", "d", "o", " = ", "1", Line, "d", "o">>

EntryPointAnnotation == "[<EntryPoint>]"

\* the parameter list in the text of a function: the tokens between the name
\* and " = "
ParameterList(d, f) ==
    LET l == CHOOSE i \in DOMAIN d : d[i] = "let "
        from == l + 1 + Len(map_publicity(f.publicity)) + Len(f.name) + 1
        e == CHOOSE i \in from..Len(d) : d[i] = " = " /\ \A k \in from..(i - 1) : d[k] # " = "
    IN  SubSeq(d, from, e - 1)

\* main with no argument, one discarded argument or one named argument
IsEntryPoint(f) ==
    /\ f.name = <<"m", "a", "i", "n">>
    /\ \/ f.arguments = <<>>
       \/ Len(f.arguments) = 1 /\ f.arguments[1].names.kind \in {"Discard", "Named"}

-----------------------------------------------------------------------------
(* The Generator: new, render, render_module, module_contents *)

\* most definitions of a module of the model
MaxDefinitions == 2

\* the definitions of the model are functions and imports
definition(def) ==
    CASE def.kind = "Function" -> function(def.function)
      [] def.kind = "Import" -> <<"// TODO: Implement imports">>

module_contents(module) ==
    JoinText([i \in DOMAIN module.definitions |-> definition(module.definitions[i])], Line)

\* what rendering the definitions of a module inserts into external_files
InsertedFiles(module) ==
    UNION { ExternalFiles(module.definitions[i].function) :
              i \in { k \in DOMAIN module.definitions :
                        module.definitions[k].kind = "Function" } }

\* render: the text returned and the Generator afterwards
render(g) ==
    [text |-> module_declaration(g.module.name) \o <<Line>> \o module_contents(g.module),
     generator |-> [g EXCEPT !.external_files = @ \cup InsertedFiles(g.module)]]

\* render_module
render_module(g, new_module) == render([g EXCEPT !.module = new_module])

ExternalFunction(name, module_name) ==
    [kind |-> "Function",
     function |-> [name |-> name, arguments |-> <<>>, body |-> << [kind |-> "Use"] >>,
                   return_type |-> IntType, publicity |-> "Public",
                   external_fsharp |-> [module_name |-> module_name, fn_name |-> <<"g">>]]]

DefinitionPool ==
    { [kind |-> "Import"],
      [kind |-> "Function",
       function |-> [name |-> <<"f">>, arguments |-> <<>>,
                     body |-> << [kind |-> "Expression", expression |-> IntLiteral] >>,
                     return_type |-> IntType, publicity |-> "Public",
                     external_fsharp |-> None]],
      ExternalFunction(<<"g">>, <<".", "/", "m">>),
      ExternalFunction(<<"h">>, <<".", "/", "n">>),
      ExternalFunction(<<"k">>, <<"M">>) }

TypedModules ==
    { ModuleOf(n, d) : n \in { <<"a">>, <<"a", "/", "d", "o">> },
                       d \in DistinctSeqs(DefinitionPool, MaxDefinitions) }

Generator_render ==
    /\ generator # NoGenerator
    /\ doc' = render(generator).text
    /\ generator' = render(generator).generator
    /\ UNCHANGED <<orchVars, ctype, rendered, node>>

Generator_render_module ==
    /\ generator # NoGenerator
    /\ \E new_module \in TypedModules :
          /\ doc' = render_module(generator, new_module).text
          /\ generator' = render_module(generator, new_module).generator
    /\ UNCHANGED <<orchVars, ctype, rendered, node>>

\* Specification of one Generator used for any sequence of render and
\* render_module calls
InitGenerator ==
    /\ InitOrchIdle
    /\ ctype = NoType
    /\ rendered = <<>>
    /\ node = NoNode
    /\ generator \in { Generator_new(m) : m \in TypedModules }

NextGenerator == Generator_render \/ Generator_render_module

SpecGenerator == InitGenerator /\ [][NextGenerator]_vars

-----------------------------------------------------------------------------
(* Properties of the Generator *)

\* C11: after any sequence of render / render_module calls on one Generator,
\* external_files holds exactly the foreign files the module rendered last
\* refers to, and the text returned is the text a fresh Generator returns for
\* that module.
C11_NoStateLeaksBetweenModules ==
    doc # NoDoc =>
        /\ generator.external_files = InsertedFiles(generator.module)
        /\ doc = render(Generator_new(generator.module)).text

-----------------------------------------------------------------------------
(* Properties of identifiers *)

\* the names a function binds: its arguments and the variables of its
\* let-bindings
BoundNames(f) ==
    { get_variable_name(f.arguments[i].names) : i \in DOMAIN f.arguments }
    \cup { BoundName(f.body[i]) :
             i \in { k \in DOMAIN f.body : f.body[k].kind = "Assignment" } }

\* the positions of d at which the identifier n is spelled
Occurrences(d, n) ==
    { i \in 1..(Len(d) - Len(n) + 1) : SubSeq(d, i, i + Len(n) - 1) = n }

\* the occurrence of n at position i is a verbatim identifier
IsVerbatim(d, n, i) ==
    /\ i > 1
    /\ d[i - 1] = DoubleBacktick
    /\ i + Len(n) <= Len(d)
    /\ d[i + Len(n)] = DoubleBacktick

\* C18: an identifier that is a reserved word of the target is emitted in
\* double backticks at every position where it appears, binding sites and
\* use sites alike; here for the argument names and local variables in the
\* text of a function.
C18_ReservedWordsVerbatim ==
    (doc # NoDoc /\ node.external_fsharp = None) =>
        \A n \in BoundNames(node) \ {None} :
            is_reserved_word(n) => \A i \in Occurrences(doc, n) : IsVerbatim(doc, n, i)

-----------------------------------------------------------------------------
(* Properties of functions bound to a foreign implementation *)

\* the body in the text of a function: the tokens after the first " = "
FunctionBody(d) ==
    LET e == CHOOSE i \in DOMAIN d : d[i] = " = " /\ \A k \in 1..(i - 1) : d[k] # " = "
    IN  SubSeq(d, e + 1, Len(d))

IsPath(module_name) ==
    \E i \in DOMAIN module_name : module_name[i] \in {"/", Backslash}

\* the function's own argument names, `()` when it has none
OwnArgumentNames(f) ==
    IF f.arguments = <<>> THEN <<"()">>
    ELSE JoinText([i \in DOMAIN f.arguments |-> arg_name(f.arguments[i])], " ")

\* C21: the body of a function bound to a foreign implementation is a call
\* of the foreign symbol with the function's argument names; when the module
\* reference holds '/' or '\' the call is unqualified and the reference is
\* added to external_files, otherwise it is qualified `<module>.<fn>` and
\* external_files is unchanged; a function without a foreign binding leaves
\* external_files unchanged.
C21_ExternalFunctionBody ==
    doc # NoDoc =>
        LET e == node.external_fsharp
        IN  /\ e = None => generator.external_files = {}
            /\ (e # None /\ IsPath(e.module_name)) =>
                  /\ FunctionBody(doc) = e.fn_name \o <<" ">> \o OwnArgumentNames(node)
                  /\ generator.external_files = {e.module_name}
            /\ (e # None /\ ~IsPath(e.module_name)) =>
                  /\ FunctionBody(doc) =
                        e.module_name \o <<".">> \o e.fn_name \o <<" ">> \o OwnArgumentNames(node)
                  /\ generator.external_files = {}

\* C21 witness: f(x, do) bound to g of the file ./m was lowered to `g x do`
\* and ./m was recorded.
C21_Witness ==
    /\ doc # NoDoc
    /\ node.external_fsharp # None
    /\ node.external_fsharp.module_name = <<".", "/", "m">>
    /\ Len(node.arguments) = 2
    /\ FunctionBody(doc) = <<"g", " ", "x", " ", "d", "o">>
    /\ generator.external_files = { <<".", "/", "m">> }


-----------------------------------------------------------------------------
(* Patterns, constants and assignments lowered one at a time *)

\* a type that a module m declares
UserType == [tag |-> "Named", module |-> "m", name |-> "T"]

\* the types of the constructors without arguments: Bool and Nil of the
\* prelude, and types of a module m, of which two reuse the names Bool and Nil
NullaryTypes ==
    { BoolType, NilType, UserType,
      [tag |-> "Named", module |-> "m", name |-> "Bool"],
      [tag |-> "Named", module |-> "m", name |-> "Nil"] }

NullaryNames ==
    { <<"T", "r", "u", "e">>, <<"F", "a", "l", "s", "e">>, <<"N", "i", "l">>, <<"A">> }

\* the constructors of Bool are True and False, the constructor of Nil is Nil;
\* a type of a module may name its constructors as it likes
IsConstructorOf(name, type) ==
    /\ type = BoolType => name \in { <<"T", "r", "u", "e">>, <<"F", "a", "l", "s", "e">> }
    /\ type = NilType => name = <<"N", "i", "l">>

NullaryPatterns ==
    { [kind |-> "Constructor", name |-> n, type |-> t, arguments |-> <<>>,
       spread |-> None, constructor |-> [field_map |-> None]] :
        <<n, t>> \in { nt \in NullaryNames \X NullaryTypes : IsConstructorOf(nt[1], nt[2]) } }

NullaryConstants ==
    { [kind |-> "Record", name |-> n, tag |-> n, type |-> t, args |-> <<>>,
       field_map |-> None] :
        <<n, t>> \in { nt \in NullaryNames \X NullaryTypes : IsConstructorOf(nt[1], nt[2]) } }

PatternNames == << <<"a">>, <<"b">>, <<"c">>, <<"d">>, <<"e">> >>

\* the patterns on the constructor c of t with every argument given: each
\* bound to a variable or each discarded, with or without a spread
ConstructorPatterns(t, c) ==
    { [kind |-> "Constructor", name |-> c.name, type |-> UserType,
       arguments |-> [i \in DOMAIN c.arguments |->
                        [label |-> c.arguments[i].label,
                         value |-> IF bound
                                   THEN [kind |-> "Variable", name |-> PatternNames[i]]
                                   ELSE [kind |-> "Discard", name |-> <<"_">>]]],
       spread |-> spread, constructor |-> [field_map |-> FieldMapOf(c)]] :
        bound \in BOOLEAN, spread \in {None, <<"..">>} }

PatternsOf(t) ==
    UNION { ConstructorPatterns(t, t.constructors[i]) : i \in DOMAIN t.constructors }

InvalidPattern == [kind |-> "Invalid"]

InvalidConstant == [kind |-> "Invalid"]

StringPrefixPatterns ==
    { [kind |-> "StringPrefix", left_side_string |-> <<"a">>,
       left_side_assignment |-> l, right_side_assignment |-> r] :
        l \in {None, <<"p">>},
        r \in { [kind |-> "Variable", name |-> <<"y">>],
                [kind |-> "Discard", name |-> <<"_">>] } }

\* patterns that are of no type declared in the module
OtherPatterns ==
    NullaryPatterns \cup StringPrefixPatterns
      \cup { InvalidPattern,
             [kind |-> "Int", value |-> "1"],
             [kind |-> "Tuple",
              elems |-> << [kind |-> "Variable", name |-> <<"a">>], InvalidPattern >>],
             [kind |-> "Tuple",
              elems |-> << [kind |-> "Variable", name |-> <<"a">>],
                           [kind |-> "Discard", name |-> <<"_">>] >>] }

Constants ==
    NullaryConstants
      \cup { InvalidConstant, IntLiteral,
             [kind |-> "Tuple", elements |-> <<IntLiteral, InvalidConstant>>],
             [kind |-> "Tuple", elements |-> <<IntLiteral, IntLiteral>>] }

\* let pattern = x, for the string prefix patterns
StringPrefixAssignments ==
    { [kind |-> "Assignment", value |-> LocalVariable(<<"x">>), pattern |-> p] :
        p \in StringPrefixPatterns }

\* Generator::pattern on the pattern of a case clause
LowerPattern ==
    /\ doc = NoDoc
    /\ node.sort = "Pattern"
    /\ doc' = Unwind(pattern(node.tree))
    /\ UNCHANGED <<orchVars, ctype, genVars>>

\* Generator::constant_expression
LowerConstant ==
    /\ doc = NoDoc
    /\ node.sort = "Constant"
    /\ doc' = Unwind(constant_expression(node.tree))
    /\ UNCHANGED <<orchVars, ctype, genVars>>

\* Generator::statement on a let-assignment
LowerAssignment ==
    /\ doc = NoDoc
    /\ node.sort = "Assignment"
    /\ doc' = Unwind(statement(node.tree).doc)
    /\ UNCHANGED <<orchVars, ctype, genVars>>

\* Specification of the lowering of one pattern, constant or assignment; a
\* pattern on a constructor with arguments is on a constructor of ctype
InitPatterns ==
    /\ InitOrchIdle
    /\ generator = NoGenerator
    /\ rendered = <<>>
    /\ \/ \E t \in CustomTypes : \E p \in PatternsOf(t) :
             /\ ctype = t
             /\ node = [sort |-> "Pattern", tree |-> p]
       \/ /\ ctype = NoType
          /\ \/ \E p \in OtherPatterns : node = [sort |-> "Pattern", tree |-> p]
             \/ \E c \in Constants : node = [sort |-> "Constant", tree |-> c]
             \/ \E a \in StringPrefixAssignments :
                   node = [sort |-> "Assignment", tree |-> a]

NextPatterns == LowerPattern \/ LowerConstant \/ LowerAssignment

SpecPatterns == InitPatterns /\ [][NextPatterns]_vars

-----------------------------------------------------------------------------
(* Properties of patterns and constants *)

\* a constructor without arguments, in a pattern or in a constant
IsNullaryConstructor(n) ==
    \/ n.sort = "Pattern" /\ n.tree.kind = "Constructor" /\ n.tree.arguments = <<>>
    \/ n.sort = "Constant" /\ n.tree.kind = "Record"

\* the ordinary lowering of a constructor without arguments: (Name()) in a
\* pattern, the tag in a constant
TaggedConstructor(n) ==
    IF n.sort = "Pattern" THEN <<"(">> \o n.tree.name \o <<"()", ")">> ELSE n.tree.tag

\* C22: in patterns and in constants a constructor lowers to true or false
\* exactly when it is True or False of the built-in Bool, to () exactly when
\* its type is the built-in Nil, and a constructor of a type declared by a
\* module, whatever its name, lowers as an ordinary tagged constructor.
C22_LiteralsDecidedByType ==
    (doc # NoDoc /\ IsNullaryConstructor(node)) =>
        /\ doc = <<"true">> <=>
              (node.tree.type = BoolType /\ node.tree.name = <<"T", "r", "u", "e">>)
        /\ doc = <<"false">> <=>
              (node.tree.type = BoolType /\ node.tree.name = <<"F", "a", "l", "s", "e">>)
        /\ doc = <<"()">> <=> node.tree.type = NilType
        /\ node.tree.type \notin {BoolType, NilType} => doc = TaggedConstructor(node)

\* C22 witness: a pattern True of a type declared by a module has been lowered
C22_Witness ==
    /\ doc # NoDoc
    /\ node.sort = "Pattern"
    /\ node.tree.kind = "Constructor"
    /\ node.tree.name = <<"T", "r", "u", "e">>
    /\ node.tree.type.module = "m"

\* a document of the form { .. }
IsRecordPattern(d) == d # <<>> /\ d[1] = "{ " /\ d[Len(d)] = " }"

\* C28: a pattern on a constructor of a type declared in the module lowers to
\* a record pattern { label = pat; .. } only when the classifier gives the
\* type the record shape; on a constructor of a type declared as a union it
\* lowers to the tagged form.
C28_RecordPatternOnlyForRecordTypes ==
    (doc # NoDoc /\ ctype # NoType /\ node.sort = "Pattern") =>
        (IsRecordPattern(doc) => ~is_fsharp_union_type(ctype))

\* C24: a string prefix pattern, in a case clause or in a let-assignment,
\* lowers to the helper that splits on the prefix when no name is bound to the
\* prefix, and to the helper that returns the pair exactly when one is.
C24_PrefixHelperChosenByLabel ==
    LET p == IF node.sort = "Assignment" THEN node.tree.pattern ELSE node.tree
    IN  (doc # NoDoc /\ node.sort \in {"Pattern", "Assignment"}
           /\ p.kind = "StringPrefix") =>
            /\ STRING_PATTERN_PARTS \in Tokens(doc) <=> p.left_side_assignment # None
            /\ STRING_PATTERN_PREFIX \in Tokens(doc) <=> p.left_side_assignment = None

-----------------------------------------------------------------------------
(* Expressions lowered one at a time *)

\* most binary operators of a tree of the model
MaxOperators == 2

\* deepest nesting of negations of the model
MaxNegations == 2

\* a variable of a type, or a constructor without arguments used as a value
TypedVar(name, type, tag) ==
    [kind |-> "Var", name |-> name,
     constructor |-> [type |-> type, variant |-> [tag |-> tag]]]

BoolVar == TypedVar(<<"b">>, BoolType, "LocalVariable")
IntVar == TypedVar(<<"n">>, IntType, "LocalVariable")
FloatVar == TypedVar(<<"f">>, FloatType, "LocalVariable")
StringVar ==
    TypedVar(<<"s">>, [tag |-> "Named", module |-> "gleam", name |-> "String"],
             "LocalVariable")

BinOps ==
    { "And", "Or", "Eq", "NotEq", "LtInt", "LtEqInt", "LtFloat", "LtEqFloat",
      "GtEqInt", "GtInt", "GtEqFloat", "GtFloat", "AddInt", "AddFloat", "SubInt",
      "SubFloat", "MultInt", "MultFloat", "DivInt", "DivFloat", "RemainderInt",
      "Concatenate" }

\* BinOp::precedence of the parser; the pipe has 6
Precedence(name) ==
    CASE name = "Or" -> 1
      [] name = "And" -> 2
      [] name \in {"Eq", "NotEq"} -> 3
      [] name \in {"LtInt", "LtEqInt", "LtFloat", "LtEqFloat",
                   "GtEqInt", "GtInt", "GtEqFloat", "GtFloat"} -> 4
      [] name = "Concatenate" -> 5
      [] name \in {"AddInt", "AddFloat", "SubInt", "SubFloat"} -> 7
      [] name \in {"MultInt", "MultFloat", "DivInt", "DivFloat", "RemainderInt"} -> 8

\* the type of the operands of an operator, None when it takes any
OperandType(name) ==
    CASE name \in {"And", "Or"} -> BoolType
      [] name \in {"Eq", "NotEq"} -> None
      [] name \in {"LtInt", "LtEqInt", "GtEqInt", "GtInt", "AddInt", "SubInt",
                   "MultInt", "DivInt", "RemainderInt"} -> IntType
      [] name = "Concatenate" -> StringVar.constructor.type
      [] OTHER -> FloatType

\* the type of the value of an operator
ResultType(name) ==
    CASE Precedence(name) <= 4 -> BoolType
      [] Precedence(name) = 5 -> StringVar.constructor.type
      [] OTHER -> OperandType(name)

TypeOfExpr(e) == IF e.kind = "BinOp" THEN ResultType(e.name) ELSE e.constructor.type

BinOp(name, left, right) == [kind |-> "BinOp", name |-> name, left |-> left, right |-> right]

\* what the type checker accepts
IsTypedBinOp(name, left, right) ==
    /\ TypeOfExpr(left) = TypeOfExpr(right)
    /\ OperandType(name) # None => TypeOfExpr(left) = OperandType(name)

\* what the parser builds from operators written without braces: the
\* operators are left associative, and an operand in braces is a Block
IsParsedBinOp(name, left, right) ==
    /\ left.kind = "BinOp" => Precedence(left.name) >= Precedence(name)
    /\ right.kind = "BinOp" => Precedence(right.name) > Precedence(name)

\* the operators of the trees of more than one operator
TreeOperators == { "And", "Eq", "LtEqInt", "AddInt", "MultInt" }

\* the typed trees of exactly k operators over b and n
BinOpsOfSize[k \in 0..MaxOperators] ==
    IF k = 0 THEN { BoolVar, IntVar }
    ELSE UNION { { BinOp(name, l, r) :
                     <<name, l, r>> \in
                        { t \in TreeOperators \X BinOpsOfSize[i] \X BinOpsOfSize[k - 1 - i] :
                            /\ IsTypedBinOp(t[1], t[2], t[3])
                            /\ IsParsedBinOp(t[1], t[2], t[3]) } }
                 : i \in 0..(k - 1) }

\* every operator on two variables
FlatBinOps ==
    { BinOp(name, v, v) :
        <<name, v>> \in { t \in BinOps \X {BoolVar, IntVar, FloatVar, StringVar} :
                            IsTypedBinOp(t[1], t[2], t[2]) } }

BinOpTrees == FlatBinOps \cup UNION { BinOpsOfSize[k] : k \in 1..MaxOperators }

\* -n, -(-n), .. and !b, !!b, ..
Negations[k \in 0..MaxNegations] ==
    IF k = 0 THEN { IntVar, BoolVar }
    ELSE { [kind |-> IF v = IntVar \/ v.kind = "NegateInt" THEN "NegateInt"
                     ELSE "NegateBool",
            value |-> v] : v \in Negations[k - 1] }

NegationsPool == UNION { Negations[k] : k \in 1..MaxNegations }

\* True, False, Nil or A used as a value: of Bool and Nil of the prelude or of a
\* type of a module
NullaryVars ==
    { TypedVar(n, t, "Record") :
        <<n, t>> \in { nt \in NullaryNames \X NullaryTypes : IsConstructorOf(nt[1], nt[2]) } }

\* case n { a -> { body } }
CaseOf(p, guard, then) ==
    [kind |-> "Case", subjects |-> <<IntVar>>,
     clauses |-> << [pattern |-> <<p>>, alternative_patterns |-> <<>>,
                     guard |-> guard, then |-> then] >>]

\* a statement sequence in each place that holds one: a block, the body of an
\* anonymous function and the block of a case clause
SequenceExpressions ==
    UNION { { [kind |-> "Block", statements |-> b],
              [kind |-> "Fn", args |-> <<>>, body |-> b],
              [kind |-> "Fn", body |-> b,
               args |-> << [names |-> [kind |-> "Named", name |-> <<"x">>],
                            type |-> IntType] >>],
              CaseOf([kind |-> "Variable", name |-> <<"a">>], None,
                     [kind |-> "Block", statements |-> b]) }
            : b \in FunctionBodies }

InvalidExpression == [kind |-> "Invalid"]

\* trees that hold an invalid expression, pattern or constant
InvalidTrees ==
    { InvalidExpression,
      [kind |-> "Tuple", elems |-> <<IntVar, InvalidExpression>>],
      [kind |-> "Block",
       statements |-> << [kind |-> "Expression", expression |-> InvalidExpression] >>],
      CaseOf(InvalidPattern, None, IntVar),
      CaseOf([kind |-> "Variable", name |-> <<"a">>],
             [kind |-> "Constant", literal |-> InvalidConstant], IntVar) }

OtherExpressions ==
    { CaseOf([kind |-> "Variable", name |-> <<"a">>], None, IntVar),
      CaseOf([kind |-> "Int", value |-> "1"],
             [kind |-> "Var", name |-> "b", type |-> "Bool"], IntVar),
      [kind |-> "Tuple", elems |-> <<IntVar, BoolVar>>] }

Expressions ==
    BinOpTrees \cup NegationsPool \cup NullaryVars \cup SequenceExpressions
      \cup InvalidTrees \cup OtherExpressions

\* Generator::expression
LowerExpression ==
    /\ doc = NoDoc
    /\ doc' = Unwind(expression(node))
    /\ UNCHANGED <<orchVars, ctype, genVars>>

\* Specification of the lowering of one expression
InitExpressions ==
    /\ InitOrchIdle
    /\ generator = NoGenerator
    /\ rendered = <<>>
    /\ ctype = NoType
    /\ node \in Expressions

NextExpressions == LowerExpression

SpecExpressions == InitExpressions /\ [][NextExpressions]_vars

-----------------------------------------------------------------------------
(* Properties of expressions *)

\* C23: a tree that holds an invalid pattern, an invalid constant or an
\* invalid expression makes generation panic: no text is returned.
C23_InvalidNodePanics ==
    (doc # NoDoc /\ node \in InvalidTrees) => doc = Panicked

IsNegation(e) == e.kind \in {"NegateInt", "NegateBool"}

\* C25: a negation of a negation, of an integer or of a boolean, renders as
\* the operator and the inner negation in parentheses; a negation of
\* something else has no parentheses.
C25_DoubleNegationParenthesized ==
    (doc # NoDoc /\ IsNegation(node)) =>
        IF IsNegation(node.value)
        THEN /\ Len(doc) >= 4
             /\ doc[2] = "("
             /\ doc[Len(doc)] = ")"
             /\ SubSeq(doc, 3, Len(doc) - 1) = expression(node.value)
        ELSE "(" \notin Tokens(doc)

\* t occurs in d as a run of consecutive tokens
IsInfix(t, d) == \E i \in 0..(Len(d) - Len(t)) : SubSeq(d, i + 1, i + Len(t)) = t

\* the statement sequence of a block, of an anonymous function or of the
\* single clause of a case
SequenceOf(e) ==
    CASE e.kind = "Block" -> e.statements
      [] e.kind = "Fn" -> e.body
      [] e.kind = "Case" -> e.clauses[1].then.statements

\* C26: a block, the body of an anonymous function and the block of a case
\* clause that end in a let-binding of a name render the statements and then
\* the bound name as the final expression.
C26_TrailingValueInEverySequence ==
    (doc # NoDoc /\ node \in SequenceExpressions) =>
        LET s == SequenceOf(node)
            last == s[Len(s)]
            own == JoinText([i \in DOMAIN s |-> statement(s[i]).doc], Line)
        IN  (last.kind = "Assignment" /\ BoundName(last) # None) =>
                IsInfix(own \o <<Line>> \o BoundName(last), doc)

\* the precedence of the operators of the target; every operator is left
\* associative, and = <> < <= > >= are of one precedence
TargetPrecedence(op) ==
    CASE op = "||" -> 1
      [] op = "&&" -> 2
      [] op \in {"=", "<>", "<", "<=", ">", ">="} -> 3
      [] op \in {"+", "-"} -> 4
      [] op \in {"*", "/", "%"} -> 5

\* the operator tree the target reads from operands and operators in turn,
\* written with every operation in parentheses
RECURSIVE ReadTarget(_)
ReadTarget(toks) ==
    IF Len(toks) = 1 THEN toks[1]
    ELSE LET ops == { i \in DOMAIN toks : i % 2 = 0 }
             lowest == { i \in ops : \A j \in ops :
                            TargetPrecedence(toks[i]) <= TargetPrecedence(toks[j]) }
             k == CHOOSE i \in lowest : \A j \in lowest : j <= i
         IN  "(" \o ReadTarget(SubSeq(toks, 1, k - 1)) \o toks[k]
                 \o ReadTarget(SubSeq(toks, k + 1, Len(toks))) \o ")"

\* the operator tree of a typed expression, written in the same way
RECURSIVE OperatorTree(_)
OperatorTree(e) ==
    IF e.kind = "BinOp"
    THEN "(" \o OperatorTree(e.left) \o BinOpText(e.name) \o OperatorTree(e.right) \o ")"
    ELSE e.name[1]

\* C27: the text of a tree of binary operators, read with the precedence and
\* associativity of the target, has the operator tree of the typed expression.
C27_GroupingPreserved ==
    (doc # NoDoc /\ node \in BinOpTrees) =>
        ReadTarget(SelectSeq(doc, LAMBDA t : t # " ")) = OperatorTree(node)

\* the clause guard of the same operator on the same variables
GuardOf(e) ==
    [kind |-> CASE e.name = "Eq" -> "Equals" [] e.name = "NotEq" -> "NotEquals"
                [] OTHER -> e.name,
     left |-> [kind |-> "Var", name |-> ToStr(e.left.name)],
     right |-> [kind |-> "Var", name |-> ToStr(e.right.name)]]

\* C29: an operator on two variables has the same text as an expression and
\* as a clause guard.
C29_SameOperatorInGuards ==
    (doc # NoDoc /\ node \in FlatBinOps /\ node.name # "Concatenate") =>
        ToStr(doc) = ToStr(bare_clause_guard(GuardOf(node)))

\* C30: a variable expression named True, False or Nil lowers to true, false
\* or () only when its type is Bool or Nil of the prelude; a constructor of a
\* type of a module that has one of these names lowers to its name.
C30_VarLiteralsDecidedByType ==
    (doc # NoDoc /\ node \in NullaryVars) =>
        /\ doc = <<"true">> <=>
              (node.constructor.type = BoolType /\ node.name = <<"T", "r", "u", "e">>)
        /\ doc = <<"false">> <=>
              (node.constructor.type = BoolType /\ node.name = <<"F", "a", "l", "s", "e">>)
        /\ doc = <<"()">> <=> node.constructor.type = NilType
        /\ node.constructor.type \notin {BoolType, NilType} => doc = node.name

=============================================================================
